---- MODULE Spec2Model ----
(***************************************************************************)
(* Verification model of the computation core of Dashboard-Economics:      *)
(* FinancialAnalysisService (ROI, NPV, IRR, payback, comprehensive and      *)
(* sensitivity analysis), RiskManagementService (sensitivity analysis,      *)
(* decision trees, Monte Carlo simulation) and CostEstimationService        *)
(* (COCOMO, function points).                                               *)
(*                                                                         *)
(* JavaScript numbers are modelled as exact rationals [n, d] in lowest      *)
(* terms with d > 0; d = 0 encodes the non-finite values (n = 0: NaN,       *)
(* n = 1: Infinity, n = -1: -Infinity).  The rounding error of IEEE-754     *)
(* doubles is not modelled; Math.round, Math.floor and Math.abs are.        *)
(***************************************************************************)
EXTENDS Integers, Sequences, FiniteSets, TLC

VARIABLES
    pc,        \* position of the caller: "idle", inside a loop, or "returned"
    op,        \* name of the operation that is running or has just returned
    args,      \* the arguments the operation was called with
    inputs,    \* the caller's argument objects as the operation has left them
    ret,       \* the value returned, or [error |-> message] for a throw
    i,         \* loop counter of the running iteration (calculateIRR)
    rate,      \* loop variable `rate` (calculateIRR, sensitivityAnalysis)
    restarts,  \* how often calculateIRR has reset rate to 0.05 in this call
    kind,      \* what the last iteration of calculateIRR did
    results    \* sensitivityAnalysis: the scenarios evaluated so far

vars == <<pc, op, args, inputs, ret, i, rate, restarts, kind, results>>

(***************************************************************************)
(* Numbers                                                                 *)
(***************************************************************************)
Abs(x) == IF x < 0 THEN -x ELSE x

Sign(x) == IF x < 0 THEN -1 ELSE IF x > 0 THEN 1 ELSE 0

RECURSIVE GCD(_, _)
GCD(a, b) == IF b = 0 THEN a ELSE GCD(b, a % b)

NaN == [n |-> 0, d |-> 0]

\* The number n/d in lowest terms.
Rat(n, d) ==
    IF d = 0 THEN [n |-> Sign(n), d |-> 0]
    ELSE LET g == GCD(Abs(n), Abs(d))
             s == IF d < 0 THEN -1 ELSE 1
         IN  [n |-> (s * n) \div g, d |-> (s * d) \div g]

Num(k) == [n |-> k, d |-> 1]

Zero == Num(0)

One == Num(1)

IsFinite(a) == a.d > 0

IsNaN(a) == a.d = 0 /\ a.n = 0

Neg(a) == [n |-> -a.n, d |-> a.d]

Add(a, b) ==
    IF a.d = 0 \/ b.d = 0
    THEN IF a.d = 0 /\ b.d = 0 THEN (IF a.n = b.n THEN a ELSE NaN)
         ELSE IF a.d = 0 THEN a ELSE b
    ELSE LET g == GCD(a.d, b.d)
             l == (a.d \div g) * b.d
         IN  Rat(a.n * (l \div a.d) + b.n * (l \div b.d), l)

Sub(a, b) == Add(a, Neg(b))

Mul(a, b) ==
    IF a.d = 0 \/ b.d = 0 THEN [n |-> Sign(a.n) * Sign(b.n), d |-> 0]
    ELSE LET g1 == GCD(Abs(a.n), b.d)
             g2 == GCD(Abs(b.n), a.d)
         IN  Rat((a.n \div g1) * (b.n \div g2), (a.d \div g2) * (b.d \div g1))

Div(a, b) ==
    IF b.d = 0 THEN (IF a.d = 0 \/ b.n = 0 THEN NaN ELSE Zero)
    ELSE IF b.n = 0 THEN [n |-> Sign(a.n), d |-> 0]
    ELSE IF a.d = 0 THEN [n |-> Sign(a.n) * Sign(b.n), d |-> 0]
    ELSE Mul(a, Rat(b.d * Sign(b.n), Abs(b.n)))

\* n1/d1 < n2/d2 for d1, d2 > 0, by continued fractions (no products).
RECURSIVE FracLess(_, _, _, _)
FracLess(n1, d1, n2, d2) ==
    LET q1 == n1 \div d1
        q2 == n2 \div d2
        r1 == n1 % d1
        r2 == n2 % d2
    IN  IF q1 # q2 THEN q1 < q2
        ELSE IF r2 = 0 THEN FALSE
        ELSE IF r1 = 0 THEN TRUE
        ELSE FracLess(d2, r2, d1, r1)

\* a < b as JavaScript evaluates it: false when either side is NaN.
Less(a, b) ==
    IF IsNaN(a) \/ IsNaN(b) THEN FALSE
    ELSE IF a.d = 0 THEN a.n < 0 /\ ~(b.d = 0 /\ b.n < 0)
    ELSE IF b.d = 0 THEN b.n > 0
    ELSE FracLess(a.n, a.d, b.n, b.d)

Greater(a, b) == Less(b, a)

LessEq(a, b) == ~IsNaN(a) /\ ~IsNaN(b) /\ ~Less(b, a)

GreaterEq(a, b) == LessEq(b, a)

\* Math.abs
MathAbs(a) == [n |-> Abs(a.n), d |-> a.d]

\* Math.floor
MathFloor(a) == IF a.d = 0 THEN a ELSE Num(a.n \div a.d)

\* Math.round: the nearest integer, halves towards +Infinity.
MathRound(a) ==
    IF a.d = 0 THEN a
    ELSE Num((a.n \div a.d) + ((2 * (a.n % a.d) + a.d) \div (2 * a.d)))

\* Math.round(x * 100) / 100
Round2(a) ==
    IF a.d = 0 THEN a
    ELSE Rat(100 * (a.n \div a.d) + ((200 * (a.n % a.d) + a.d) \div (2 * a.d)), 100)

\* Math.pow(base, k) for an integer k >= 0
RECURSIVE Pow(_, _)
Pow(base, k) == IF k = 0 THEN One ELSE Mul(base, Pow(base, k - 1))

\* a JavaScript value used as a condition: 0 and NaN are falsy
Truthy(a) == ~(IsNaN(a) \/ (a.d # 0 /\ a.n = 0))

Null == [null |-> TRUE]

IsNull(v) == "null" \in DOMAIN v

Error(msg) == [error |-> msg]

IsError(r) == "error" \in DOMAIN r

\* array.reduce((sum, x) => sum + x, 0)
RECURSIVE SumSeq(_)
SumSeq(s) == IF s = <<>> THEN Zero ELSE Add(SumSeq(SubSeq(s, 1, Len(s) - 1)), s[Len(s)])

(***************************************************************************)
(* IEEE 754 double precision, for the computations whose outcome depends on  *)
(* the rounding of a number to 53 significant bits.  A natural number of any *)
(* size is a sequence of limbs in base 2^15, least significant first, with no *)
(* leading zero limb.  A finite double is neg * m * 2^e with m odd (or zero).  *)
(* A result below the range of the normal numbers is rounded to a multiple of *)
(* 2^MinExponent (a subnormal number, or zero).  Exponent overflow and -0 do  *)
(* not occur for the inputs used and are not represented.                      *)
(***************************************************************************)
LimbBits == 15

LimbBase == 32768

\* 2^k for a small k
RECURSIVE Pow2(_)
Pow2(k) == IF k = 0 THEN 1 ELSE 2 * Pow2(k - 1)

\* the number of bits of a natural number below 2^31
RECURSIVE BitLen(_)
BitLen(n) == IF n = 0 THEN 0 ELSE 1 + BitLen(n \div 2)

\* the number of trailing zero bits of a positive number
RECURSIVE TrailingZeros(_)
TrailingZeros(n) == IF n % 2 = 1 THEN 0 ELSE 1 + TrailingZeros(n \div 2)

BigLimb(a, k) == IF k <= Len(a) THEN a[k] ELSE 0

\* without leading zero limbs
RECURSIVE BigNorm(_)
BigNorm(a) ==
    IF a = <<>> \/ a[Len(a)] # 0 THEN a ELSE BigNorm(SubSeq(a, 1, Len(a) - 1))

RECURSIVE BigFromInt(_)
BigFromInt(n) ==
    IF n = 0 THEN <<>> ELSE <<n % LimbBase>> \o BigFromInt(n \div LimbBase)

\* the value of a natural number that fits an integer of the model
RECURSIVE BigToInt(_)
BigToInt(a) ==
    IF a = <<>> THEN 0 ELSE a[1] + LimbBase * BigToInt(SubSeq(a, 2, Len(a)))

BigAdd(a, b) ==
    LET n == IF Len(a) > Len(b) THEN Len(a) ELSE Len(b)
        carry[k \in 0..n] ==
            IF k = 0 THEN 0
            ELSE (BigLimb(a, k) + BigLimb(b, k) + carry[k - 1]) \div LimbBase
    IN  BigNorm([k \in 1..n + 1 |->
                    IF k = n + 1 THEN carry[n]
                    ELSE (BigLimb(a, k) + BigLimb(b, k) + carry[k - 1]) % LimbBase])

\* a - b, for a >= b
BigSub(a, b) ==
    LET n == Len(a)
        borrow[k \in 0..n] ==
            IF k = 0 THEN 0
            ELSE IF BigLimb(a, k) - BigLimb(b, k) - borrow[k - 1] < 0 THEN 1 ELSE 0
    IN  BigNorm([k \in 1..n |->
                    (BigLimb(a, k) - BigLimb(b, k) - borrow[k - 1] + LimbBase) % LimbBase])

\* -1, 0 or 1 as a is below, equal to or above b
BigCmp(a, b) ==
    IF Len(a) # Len(b) THEN (IF Len(a) < Len(b) THEN -1 ELSE 1)
    ELSE LET differ == {k \in 1..Len(a) : a[k] # b[k]}
         IN  IF differ = {} THEN 0
             ELSE LET k == CHOOSE j \in differ : \A m \in differ : m <= j
                  IN  IF a[k] < b[k] THEN -1 ELSE 1

\* a * k, for 0 <= k < 2^15
BigMulSmall(a, k) ==
    LET n == Len(a)
        carry[j \in 0..n] ==
            IF j = 0 THEN 0 ELSE (a[j] * k + carry[j - 1]) \div LimbBase
    IN  BigNorm([j \in 1..n + 1 |->
                    IF j = n + 1 THEN carry[n]
                    ELSE (a[j] * k + carry[j - 1]) % LimbBase])

\* quotient and remainder of a by k, for 0 < k < 2^15
BigDivSmall(a, k) ==
    LET n == Len(a)
        rem[j \in 1..n + 1] ==
            IF j = n + 1 THEN 0 ELSE (rem[j + 1] * LimbBase + a[j]) % k
    IN  [q |-> BigNorm([j \in 1..n |-> (rem[j + 1] * LimbBase + a[j]) \div k]),
         r |-> IF n = 0 THEN 0 ELSE rem[1]]

\* a * b
RECURSIVE BigMul(_, _)
BigMul(a, b) ==
    IF b = <<>> THEN <<>>
    ELSE BigAdd(BigMulSmall(a, b[1]),
                IF Len(b) = 1 \/ a = <<>> THEN <<>>
                ELSE <<0>> \o BigMul(a, SubSeq(b, 2, Len(b))))

BigBitLen(a) ==
    IF a = <<>> THEN 0 ELSE (Len(a) - 1) * LimbBits + BitLen(a[Len(a)])

\* a * 2^s
BigShl(a, s) ==
    IF a = <<>> THEN a
    ELSE [k \in 1..s \div LimbBits |-> 0] \o BigMulSmall(a, Pow2(s % LimbBits))

\* floor(a / 2^s)
BigShr(a, s) ==
    IF s \div LimbBits >= Len(a) THEN <<>>
    ELSE BigDivSmall(SubSeq(a, s \div LimbBits + 1, Len(a)), Pow2(s % LimbBits)).q

\* the number of trailing zero bits of a positive natural number
BigTrailingZeros(a) ==
    LET k == CHOOSE j \in 1..Len(a) : a[j] # 0 /\ \A m \in 1..j - 1 : a[m] = 0
    IN  (k - 1) * LimbBits + TrailingZeros(a[k])

DZero == [neg |-> FALSE, m |-> <<>>, e |-> 0]

\* Every operator below takes the values it uses more than once as
\* parameters, so that each is computed in one place.
Max(x, y) == IF x > y THEN x ELSE y

Min(x, y) == IF x < y THEN x ELSE y

\* (-1)^neg * m * 2^e without the tz trailing zero bits of m
DyadicBy(neg, m, e, tz) == [neg |-> neg, m |-> BigShr(m, tz), e |-> e + tz]

\* the dyadic number (-1)^neg * m * 2^e in its one representation
Dyadic(neg, m, e) ==
    IF m = <<>> THEN DZero ELSE DyadicBy(neg, m, e, BigTrailingZeros(m))

\* the exponent of the smallest positive double, 2^-1074
MinExponent == -1074

\* round up: the dropped bits are above half (c > 0), or half (c = 0) of a
\* number with a further fraction or with an odd last kept bit
RoundsUp(c, sticky, lastKept) == c > 0 \/ (c = 0 /\ (sticky \/ lastKept % 2 = 1))

\* q = floor(m / 2^s) rounded by the s dropped bits of m
DRoundTo(neg, m, e, sticky, s, q) ==
    Dyadic(neg,
           IF RoundsUp(BigCmp(BigSub(m, BigShl(q, s)), BigShl(<<1>>, s - 1)), sticky,
                       BigLimb(q, 1))
           THEN BigAdd(q, <<1>>) ELSE q,
           e + s)

DRoundBy(neg, m, e, sticky, s) ==
    IF s <= 0 THEN Dyadic(neg, m, e) ELSE DRoundTo(neg, m, e, sticky, s, BigShr(m, s))

\* the double nearest to (-1)^neg * (m + f) * 2^e, ties to even, where the
\* fraction f is 0 or (with `sticky`) some number strictly between 0 and 1:
\* at most 53 significant bits, and none below 2^MinExponent
DRound(neg, m, e, sticky) ==
    DRoundBy(neg, m, e, sticky, Max(BigBitLen(m) - 53, MinExponent - e))

DFromInt(k) == Dyadic(k < 0, BigFromInt(Abs(k)), 0)

DNeg(a) == IF a.m = <<>> THEN a ELSE [a EXCEPT !.neg = ~a.neg]

\* the sum of two numbers of opposite sign, c comparing their magnitudes
DDifference(aneg, ma, bneg, mb, e0, c) ==
    IF c = 0 THEN DZero
    ELSE IF c > 0 THEN Dyadic(aneg, BigSub(ma, mb), e0)
    ELSE Dyadic(bneg, BigSub(mb, ma), e0)

\* the sum of (-1)^aneg * ma * 2^e0 and (-1)^bneg * mb * 2^e0
DAligned(aneg, ma, bneg, mb, e0) ==
    IF aneg = bneg THEN Dyadic(aneg, BigAdd(ma, mb), e0)
    ELSE DDifference(aneg, ma, bneg, mb, e0, BigCmp(ma, mb))

DAlignedAt(a, b, e0) ==
    DAligned(a.neg, BigShl(a.m, a.e - e0), b.neg, BigShl(b.m, b.e - e0), e0)

\* a + b exactly
DExactAdd(a, b) ==
    IF a.m = <<>> THEN b
    ELSE IF b.m = <<>> THEN a
    ELSE DAlignedAt(a, b, Min(a.e, b.e))

\* the double nearest to the dyadic number x
DNearest(x) == DRound(x.neg, x.m, x.e, FALSE)

\* the double a + b
DAdd(a, b) == DNearest(DExactAdd(a, b))

\* the double a - b
DSub(a, b) == DAdd(a, DNeg(b))

\* the double a * k, for an integer |k| < 2^15
DMulInt(a, k) == DRound(a.neg # (k < 0), BigMulSmall(a.m, Abs(k)), a.e, FALSE)

\* the double nearest to the quotient d.q with a remainder d.r, times 2^e
DRoundQuotient(neg, d, e) == DRound(neg, d.q, e, d.r # 0)

\* the double a / k, for an integer 0 < |k| < 2^15
DDivInt(a, k) ==
    IF a.m = <<>> THEN DZero
    ELSE DRoundQuotient(a.neg # (k < 0), BigDivSmall(BigShl(a.m, 75), Abs(k)), a.e - 75)

\* the double a * b
DMul(a, b) == DRound(a.neg # b.neg, BigMul(a.m, b.m), a.e + b.e, FALSE)

\* Math.abs(a)
DAbs(a) == [a EXCEPT !.neg = FALSE]

\* the largest r with r * r <= m, found bit by bit from bit k down
RECURSIVE BigSqrtBits(_, _, _)
BigSqrtBits(m, r, k) ==
    IF k < 0 THEN r
    ELSE IF BigCmp(BigMul(BigAdd(r, BigShl(<<1>>, k)), BigAdd(r, BigShl(<<1>>, k))), m) <= 0
         THEN BigSqrtBits(m, BigAdd(r, BigShl(<<1>>, k)), k - 1)
         ELSE BigSqrtBits(m, r, k - 1)

\* the double nearest to the square root of wide * 2^e, r the whole part of
\* the root of wide
DRoundRoot(wide, r, e) == DRound(FALSE, r, e \div 2, BigCmp(BigMul(r, r), wide) # 0)

DSqrtOf(wide, e) == DRoundRoot(wide, BigSqrtBits(wide, <<>>, BigBitLen(wide) \div 2), e)

\* the root of m * 2^e taken of m * 2^t over the even exponent e - t
DSqrtWidened(m, e, t) ==
    IF (e - t) % 2 = 0 THEN DSqrtOf(BigShl(m, t), e - t)
    ELSE DSqrtOf(BigShl(m, t + 1), e - t - 1)

\* Math.sqrt(a) for a >= 0: the square root of the significand, widened to
\* at least 108 bits over an even exponent, rounded once
DSqrt(a) ==
    IF a.m = <<>> THEN DZero ELSE DSqrtWidened(a.m, a.e, Max(0, 108 - BigBitLen(a.m)))

IsNegative(x) == x.m # <<>> /\ x.neg

\* a < b, a <= b
DLess(a, b) == IsNegative(DExactAdd(a, DNeg(b)))

DLessEq(a, b) == ~DLess(b, a)

\* Math.floor(a) as an integer, for |a| < 2^30
DFloor(a) ==
    IF a.e >= 0 THEN (IF a.neg THEN -1 ELSE 1) * BigToInt(BigShl(a.m, a.e))
    ELSE IF a.neg THEN -BigToInt(BigShr(a.m, -a.e)) - 1
    ELSE BigToInt(BigShr(a.m, -a.e))

\* the double nearest to the finite fraction n/d, d < 2^15: the value of a
\* decimal literal, and of the quotient of two integers
DFromRat(r) == DDivInt(DFromInt(r.n), r.d)

\* Math.round(a * 100) / 100 as an exact number of hundredths
DRound2(a) ==
    Rat(DFloor(DExactAdd(DMulInt(a, 100), [neg |-> FALSE, m |-> <<1>>, e |-> -1])), 100)

(***************************************************************************)
(* FinancialAnalysisService                                                *)
(***************************************************************************)
Hundred == Num(100)

\* the three-way interpretation strings of calculateROI and calculateNPV
Interpret(x, pos, neg, zero) ==
    IF Greater(x, Zero) THEN pos ELSE IF Less(x, Zero) THEN neg ELSE zero

calculateROI(totalInvestment, totalReturn) ==
    IF LessEq(totalInvestment, Zero)
    THEN Error("Total investment must be greater than 0")
    ELSE LET netProfit == Sub(totalReturn, totalInvestment)
             roi == Mul(Div(netProfit, totalInvestment), Hundred)
         IN  [metric |-> "ROI",
              totalInvestment |-> totalInvestment,
              totalReturn |-> totalReturn,
              netProfit |-> netProfit,
              roi |-> Round2(roi),
              interpretation |-> Interpret(roi, "Profitable", "Loss", "Break-even")]

\* const period = i + 1, for the 0-based loop index i
PeriodMutant(k) == k

Period(k) == k + 1

DiscountedMutant(cashFlows, discountRate, k) ==
    Mul(cashFlows[k + 1], Pow(Add(One, discountRate), Period(k)))

\* cashFlows[i] / Math.pow(1 + discountRate, period), for the 0-based index i
Discounted(cashFlows, discountRate, k) ==
    Div(cashFlows[k + 1], Pow(Add(One, discountRate), Period(k)))

\* presentValue after the first k passes of the loop
RECURSIVE PresentValue(_, _, _)
PresentValue(cashFlows, discountRate, k) ==
    IF k = 0 THEN Zero
    ELSE Add(PresentValue(cashFlows, discountRate, k - 1),
             Discounted(cashFlows, discountRate, k - 1))

calculateNPV(initialInvestment, cashFlows, discountRate) ==
    IF Len(cashFlows) = 0 THEN Error("Cash flows array cannot be empty")
    ELSE IF Less(discountRate, Zero) THEN Error("Discount rate cannot be negative")
    ELSE LET presentValue == PresentValue(cashFlows, discountRate, Len(cashFlows))
             npv == Sub(presentValue, initialInvestment)
         IN  [metric |-> "NPV",
              initialInvestment |-> initialInvestment,
              discountRate |-> Mul(discountRate, Hundred),
              totalPresentValue |-> Round2(presentValue),
              npv |-> Round2(npv),
              interpretation |->
                  Interpret(npv, "Accept Project", "Reject Project", "Indifferent"),
              discountedCashFlows |->
                  [k \in 1..Len(cashFlows) |->
                      [period |-> Period(k - 1),
                       cashFlow |-> cashFlows[k],
                       discountedValue |->
                           Round2(Discounted(cashFlows, discountRate, k - 1))]]]

\* const allCashFlows = [-initialInvestment, ...cashFlows]
AllCashFlows(initialInvestment, cashFlows) == <<Neg(initialInvestment)>> \o cashFlows

\* let rate = 0.1
startRate == Rat(1, 10)

\* let tolerance = 0.0001
tolerance == Rat(1, 10000)

maxIterations == 100

\* rate = 0.05 when the derivative is too small
restartRate == Rat(1, 20)

\* npv after the inner loop has added the terms j = 0 .. k-1
RECURSIVE NPVAt(_, _, _)
NPVAt(all, r, k) ==
    IF k = 0 THEN Zero
    ELSE Add(NPVAt(all, r, k - 1), Div(all[k], Pow(Add(One, r), k - 1)))

\* dnpv after the inner loop has run j = 0 .. k-1 (the term j = 0 adds nothing)
RECURSIVE DNPVAt(_, _, _)
DNPVAt(all, r, k) ==
    IF k <= 1 THEN Zero
    ELSE Sub(DNPVAt(all, r, k - 1),
             Div(Mul(Num(k - 1), all[k]), Pow(Add(One, r), k)))

\* for (let i = 0; i < maxIterations; i++)
LoopGuardMutant(k) == k <= maxIterations

LoopGuard(k) == k < maxIterations

NewtonMutant(r, npv, dnpv) == Add(r, Div(npv, dnpv))

\* rate = rate - npv / dnpv
Newton(r, npv, dnpv) == Sub(r, Div(npv, dnpv))

\* One pass of the Newton-Raphson loop body at `r`: what it did and the rate after it.
irrIteration(all, r) ==
    LET npv == NPVAt(all, r, Len(all))
        dnpv == DNPVAt(all, r, Len(all))
    IN  IF Less(MathAbs(npv), tolerance) THEN [kind |-> "break", rate |-> r]
        ELSE IF Less(MathAbs(dnpv), tolerance)
             THEN [kind |-> "restart", rate |-> restartRate]
             ELSE [kind |-> "newton", rate |-> Newton(r, npv, dnpv)]

\* the validation loop run from j = 1 instead of j = 0
ValidationMutant(all, r) == Sub(NPVAt(all, r, Len(all)), all[1])

\* validation += allCashFlows[j] / Math.pow(1 + rate, j), for every j
Validation(all, r) == NPVAt(all, r, Len(all))

\* the code after the loop: validation, conversion to percent, the result record
irrResult(initialInvestment, cashFlows, r) ==
    LET all == AllCashFlows(initialInvestment, cashFlows)
        validation == Validation(all, r)
        irr == Mul(r, Hundred)
    IN  [metric |-> "IRR",
         initialInvestment |-> initialInvestment,
         cashFlows |-> cashFlows,
         irr |-> Round2(irr),
         validation |-> Round2(validation),
         interpretation |->
             IF Greater(irr, Zero) THEN "Positive return" ELSE "Negative return"]

\* a value of a variable that may hold null: null, 0 and NaN are falsy
JsTruthy(v) == ~IsNull(v) /\ Truthy(v)

\* x % 1 (the remainder has the sign of x)
Mod1(a) ==
    IF a.d = 0 THEN NaN
    ELSE IF a.n >= 0 THEN Rat(a.n % a.d, a.d) ELSE Neg(Rat((-a.n) % a.d, a.d))

\* paybackPeriod ? f(paybackPeriod) : null
WhenTruthy(v, f) == IF JsTruthy(v) THEN f ELSE Null

\* the fields of the result that are derived from the local paybackPeriod
PaybackFields(paybackPeriod, yes, no) ==
    [paybackPeriod |-> WhenTruthy(paybackPeriod, Round2(paybackPeriod)),
     paybackInYears |-> WhenTruthy(paybackPeriod, MathFloor(paybackPeriod)),
     paybackInMonths |->
         WhenTruthy(paybackPeriod, MathRound(Mul(Mod1(paybackPeriod), Num(12)))),
     interpretation |-> IF JsTruthy(paybackPeriod) THEN yes ELSE no]

\* The loop of calculatePaybackPeriod from the 0-based index k with the running
\* cumulative `cum`: the local paybackPeriod it ends with and the rows it pushed.
RECURSIVE PaybackLoop(_, _, _)
PaybackLoop(cashFlows, k, cum) ==
    IF k >= Len(cashFlows) THEN [paybackPeriod |-> Null, rows |-> <<>>]
    ELSE LET cumulativeCashFlow == Add(cum, cashFlows[k + 1])
             row == [period |-> k + 1,
                     cashFlow |-> cashFlows[k + 1],
                     cumulativeCashFlow |-> Round2(cumulativeCashFlow)]
             previousCumulative == Sub(cumulativeCashFlow, cashFlows[k + 1])
             fraction == Div(MathAbs(previousCumulative), cashFlows[k + 1])
         IN  IF GreaterEq(cumulativeCashFlow, Zero)
             THEN [paybackPeriod |-> Add(Num(k), fraction), rows |-> <<row>>]
             ELSE LET rest == PaybackLoop(cashFlows, k + 1, cumulativeCashFlow)
                  IN  [paybackPeriod |-> rest.paybackPeriod, rows |-> <<row>> \o rest.rows]

calculatePaybackPeriod(initialInvestment, cashFlows) ==
    IF Len(cashFlows) = 0 THEN Error("Cash flows array cannot be empty")
    ELSE LET loop == PaybackLoop(cashFlows, 0, Neg(initialInvestment))
             f == PaybackFields(loop.paybackPeriod, "Investment recoverable",
                                "Investment not recoverable within given period")
         IN  [metric |-> "Payback Period",
              initialInvestment |-> initialInvestment,
              paybackPeriod |-> f.paybackPeriod,
              paybackInYears |-> f.paybackInYears,
              paybackInMonths |-> f.paybackInMonths,
              interpretation |-> f.interpretation,
              cashFlowAnalysis |-> loop.rows]

\* The loop of calculateDiscountedPaybackPeriod, as PaybackLoop.
RECURSIVE DiscountedPaybackLoop(_, _, _, _)
DiscountedPaybackLoop(cashFlows, discountRate, k, cum) ==
    IF k >= Len(cashFlows) THEN [paybackPeriod |-> Null, rows |-> <<>>]
    ELSE LET period == k + 1
             discountedCashFlow ==
                 Div(cashFlows[k + 1], Pow(Add(One, discountRate), period))
             cumulativeDiscountedCashFlow == Add(cum, discountedCashFlow)
             row == [period |-> period,
                     originalCashFlow |-> cashFlows[k + 1],
                     discountedCashFlow |-> Round2(discountedCashFlow),
                     cumulativeDiscountedCashFlow |-> Round2(cumulativeDiscountedCashFlow)]
             previousCumulative == Sub(cumulativeDiscountedCashFlow, discountedCashFlow)
             fraction == Div(MathAbs(previousCumulative), discountedCashFlow)
         IN  IF GreaterEq(cumulativeDiscountedCashFlow, Zero)
             THEN [paybackPeriod |-> Add(Num(k), fraction), rows |-> <<row>>]
             ELSE LET rest == DiscountedPaybackLoop(cashFlows, discountRate, k + 1,
                                                    cumulativeDiscountedCashFlow)
                  IN  [paybackPeriod |-> rest.paybackPeriod, rows |-> <<row>> \o rest.rows]

calculateDiscountedPaybackPeriod(initialInvestment, cashFlows, discountRate) ==
    IF Len(cashFlows) = 0 THEN Error("Cash flows array cannot be empty")
    ELSE LET loop == DiscountedPaybackLoop(cashFlows, discountRate, 0,
                                           Neg(initialInvestment))
             f == PaybackFields(loop.paybackPeriod, "Discounted investment recoverable",
                                "Discounted investment not recoverable within given period")
         IN  [metric |-> "Discounted Payback Period",
              initialInvestment |-> initialInvestment,
              discountRate |-> Mul(discountRate, Hundred),
              paybackPeriod |-> f.paybackPeriod,
              paybackInYears |-> f.paybackInYears,
              paybackInMonths |-> f.paybackInMonths,
              interpretation |-> f.interpretation,
              discountedCashFlowAnalysis |-> loop.rows]

\* a throw that leaves the operation after the listed steps have completed
Thrown(e, computed) == [error |-> e.error, computed |-> computed]

\* if (score >= 6) ... else if (score >= 4) ... else if (score >= 2) ... else ...
Band(score) ==
    IF score >= 6 THEN "Highly Recommended"
    ELSE IF score >= 4 THEN "Recommended"
    ELSE IF score >= 2 THEN "Consider with Caution"
    ELSE "Not Recommended"

\* payback.paybackPeriod && payback.paybackPeriod <= 3
QuickPayback(payback) ==
    JsTruthy(payback.paybackPeriod) /\ LessEq(payback.paybackPeriod, Num(3))

\* comprehensiveAnalysis up to its call of calculateIRR: the throw that ends it
\* there, or [continue |-> TRUE]
comprehensiveStart(projectData) ==
    LET initialInvestment == projectData.initialInvestment
        cashFlows == projectData.cashFlows
        roi == calculateROI(initialInvestment, SumSeq(cashFlows))
        npv == calculateNPV(initialInvestment, cashFlows, projectData.discountRate)
    IN  IF ~Truthy(initialInvestment)
        THEN Thrown(Error("Initial investment and cash flows are required"), <<>>)
        ELSE IF IsError(roi) THEN Thrown(roi, <<>>)
        ELSE IF IsError(npv) THEN Thrown(npv, <<"roi">>)
        ELSE IF Len(cashFlows) = 0
             THEN Thrown(Error("Cash flows array cannot be empty"), <<"roi", "npv">>)
        ELSE [continue |-> TRUE]

\* comprehensiveAnalysis from the return of calculateIRR, whose result is irr
comprehensiveAnalysis(projectData, irr) ==
    LET initialInvestment == projectData.initialInvestment
        cashFlows == projectData.cashFlows
        discountRate == projectData.discountRate
        totalReturn == SumSeq(cashFlows)
        roi == calculateROI(initialInvestment, totalReturn)
        npv == calculateNPV(initialInvestment, cashFlows, discountRate)
        payback == calculatePaybackPeriod(initialInvestment, cashFlows)
        discountedPayback ==
            calculateDiscountedPaybackPeriod(initialInvestment, cashFlows, discountRate)
        npvPositive == Greater(npv.npv, Zero)
        roiHigh == Greater(roi.roi, Num(15))
        irrHigh == Greater(irr.irr, Mul(discountRate, Hundred))
        score == (IF npvPositive THEN 2 ELSE 0) + (IF roiHigh THEN 2 ELSE 0)
                 + (IF irrHigh THEN 2 ELSE 0) + (IF QuickPayback(payback) THEN 1 ELSE 0)
    IN  [analysis |-> [roi |-> roi, npv |-> npv, irr |-> irr, payback |-> payback,
                       discountedPayback |-> discountedPayback],
         recommendation |->
             [overall |-> Band(score),
              score |-> score,
              maxScore |-> 7,
              reasons |->
                  <<IF npvPositive THEN "Positive NPV" ELSE "Negative NPV",
                    IF roiHigh THEN "High ROI" ELSE "Low ROI",
                    IF irrHigh THEN "IRR exceeds discount rate"
                               ELSE "IRR below discount rate",
                    IF QuickPayback(payback) THEN "Quick payback"
                                             ELSE "Slow payback">>],
         summary |->
             [initialInvestment |-> initialInvestment,
              totalReturn |-> totalReturn,
              netProfit |-> Sub(totalReturn, initialInvestment),
              projectDuration |-> Len(cashFlows),
              averageAnnualCashFlow |->
                  Round2(Div(totalReturn, Num(Len(cashFlows))))]]

(***************************************************************************)
(* RiskManagementService.decisionTreeAnalysis                              *)
(*                                                                         *)
(* A node is a record with type, name and probability; an outcome node has  *)
(* a value, a chance or decision node has branches (a sequence of nodes).   *)
(* Node names are the branch positions (0 for the root).                    *)
(***************************************************************************)
TypeError == Error("TypeError")

Undefined == [undefined |-> TRUE]

\* {...r, [field]: value}
Spread(r, field, value) ==
    [f \in DOMAIN r \cup {field} |-> IF f = field THEN value ELSE r[f]]

\* [node.name, ...result.path] throws when result.path is undefined
HasPath(result) == "path" \in DOMAIN result

\* expectedValue after the first k branches of a chance node
RECURSIVE ChanceSum(_, _, _)
ChanceSum(branches, rs, k) ==
    IF k = 0 THEN Zero
    ELSE Add(ChanceSum(branches, rs, k - 1),
             Mul(branches[k].probability, rs[k].expectedValue))

\* alternatives.reduce((best, current) =>
\*     current.expectedValue > best.expectedValue ? current : best)
\* over the first k alternatives, k >= 1
RECURSIVE BestAlternative(_, _)
BestAlternative(alternatives, k) ==
    IF k = 1 THEN alternatives[1]
    ELSE LET best == BestAlternative(alternatives, k - 1)
         IN  IF Greater(alternatives[k].expectedValue, best.expectedValue)
             THEN alternatives[k] ELSE best

RECURSIVE analyzeNode(_)
analyzeNode(node) ==
    IF node.type = "outcome"
    THEN Spread(Spread(node, "expectedValue", node.value), "path", <<node.name>>)
    ELSE LET n == Len(node.branches)
             rs == [k \in 1..n |-> analyzeNode(node.branches[k])]
             throws == \E k \in 1..n : IsError(rs[k]) \/ ~HasPath(rs[k])
         IN  IF throws THEN TypeError
             ELSE IF node.type = "chance"
             THEN Spread(Spread(node, "expectedValue",
                                Round2(ChanceSum(node.branches, rs, n))),
                         "outcomes",
                         [k \in 1..n |->
                             Spread(Spread(rs[k], "probability",
                                           node.branches[k].probability),
                                    "path", <<node.name>> \o rs[k].path)])
             ELSE LET alternatives ==
                          [k \in 1..n |->
                              Spread(Spread(rs[k], "decision", node.branches[k].name),
                                     "path", <<node.name>> \o rs[k].path)]
                  IN  IF n = 0 THEN TypeError
                      ELSE LET bestAlternative == BestAlternative(alternatives, n)
                           IN  Spread(Spread(Spread(node, "expectedValue",
                                                    bestAlternative.expectedValue),
                                             "bestDecision", bestAlternative.decision),
                                      "alternatives", alternatives)

decisionTreeAnalysis(treeStructure) ==
    LET analysis == analyzeNode(treeStructure.root)
    IN  IF IsError(analysis) THEN analysis
        ELSE [type |-> "Decision Tree Analysis",
              analysis |-> analysis,
              recommendation |->
                  IF "bestDecision" \in DOMAIN analysis
                  THEN [name |-> analysis.bestDecision] ELSE Undefined,
              expectedValue |-> analysis.expectedValue]

(***************************************************************************)
(* RiskManagementService.evaluateFormula.  A string is the sequence of its   *)
(* characters.  The part of the mathjs expression language modelled: decimal *)
(* numbers, + - * /, unary minus and plus, parentheses, blanks, the constants *)
(* Infinity and NaN; any other symbol is undefined and makes evaluate throw.  *)
(***************************************************************************)
DigitChars == <<"0", "1", "2", "3", "4", "5", "6", "7", "8", "9">>

IsDigit(c) == \E k \in 1..10 : DigitChars[k] = c

DigitValue(c) == (CHOOSE k \in 1..10 : DigitChars[k] = c) - 1

IsLetter(c) == ~IsDigit(c) /\ c \notin {" ", "+", "-", "*", "/", "(", ")", "."}

\* the decimal digits of a natural number
RECURSIVE NatToString(_)
NatToString(n) ==
    IF n < 10 THEN <<DigitChars[n + 1]>>
    ELSE NatToString(n \div 10) \o <<DigitChars[(n % 10) + 1]>>

\* the digits after the decimal point of n/d < 1, for a terminating expansion
RECURSIVE FractionToString(_, _)
FractionToString(n, d) ==
    IF n = 0 THEN <<>>
    ELSE <<DigitChars[((10 * n) \div d) + 1]>> \o FractionToString((10 * n) % d, d)

\* String(v) for a number with a short terminating decimal expansion, as
\* String.prototype.replace converts its replacement argument
NumberToString(v) ==
    IF IsNaN(v) THEN <<"N", "a", "N">>
    ELSE IF v.d = 0
         THEN (IF v.n < 0 THEN <<"-">> ELSE <<>>)
              \o <<"I", "n", "f", "i", "n", "i", "t", "y">>
    ELSE (IF v.n < 0 THEN <<"-">> ELSE <<>>)
         \o NatToString(Abs(v.n) \div v.d)
         \o (IF Abs(v.n) % v.d = 0 THEN <<>>
             ELSE <<".">> \o FractionToString(Abs(v.n) % v.d, v.d))

\* text.replace(new RegExp(name, 'g'), replacement) from position k on, for a
\* name without regular-expression metacharacters
RECURSIVE ReplaceAll(_, _, _, _)
ReplaceAll(text, name, replacement, k) ==
    IF k > Len(text) THEN <<>>
    ELSE IF k + Len(name) - 1 <= Len(text)
            /\ SubSeq(text, k, k + Len(name) - 1) = name
         THEN replacement \o ReplaceAll(text, name, replacement, k + Len(name))
         ELSE <<text[k]>> \o ReplaceAll(text, name, replacement, k + 1)

\* the position of the first non-blank character from k on
RECURSIVE SkipBlanks(_, _)
SkipBlanks(t, k) == IF k <= Len(t) /\ t[k] = " " THEN SkipBlanks(t, k + 1) ELSE k

\* the end (exclusive) of the run of digits that starts at k
RECURSIVE DigitsEnd(_, _)
DigitsEnd(t, k) == IF k <= Len(t) /\ IsDigit(t[k]) THEN DigitsEnd(t, k + 1) ELSE k

\* the end (exclusive) of the run of letters that starts at k
RECURSIVE LettersEnd(_, _)
LettersEnd(t, k) == IF k <= Len(t) /\ IsLetter(t[k]) THEN LettersEnd(t, k + 1) ELSE k

\* the value of the digit string t[k .. j-1]
RECURSIVE DigitsValue(_, _, _)
DigitsValue(t, k, j) ==
    IF j <= k THEN 0 ELSE 10 * DigitsValue(t, k, j - 1) + DigitValue(t[j - 1])

RECURSIVE Pow10(_)
Pow10(k) == IF k = 0 THEN 1 ELSE 10 * Pow10(k - 1)

ParseFailed == [ok |-> FALSE]

Parsed(v, k) == [ok |-> TRUE, v |-> v, k |-> k]

\* Parse reads one construct of the expression language from position k0 of t
\* and gives its value and the position after it, or ParseFailed where evaluate
\* throws.  The constructs: an expression (terms joined by + and -), a term
\* (factors joined by * and /), a factor with its signs ("unary"), and a number,
\* a symbol or a parenthesised expression ("primary"); "exprRest" and "termRest"
\* continue a chain whose value so far is acc.
RECURSIVE Parse(_, _, _, _)
Parse(what, t, acc, k0) ==
    LET k == SkipBlanks(t, k0)
        intEnd == DigitsEnd(t, k)
        hasFraction == intEnd <= Len(t) /\ t[intEnd] = "."
        fracEnd == IF hasFraction THEN DigitsEnd(t, intEnd + 1) ELSE intEnd
        number == Add(Num(DigitsValue(t, k, intEnd)),
                      IF hasFraction
                      THEN Rat(DigitsValue(t, intEnd + 1, fracEnd),
                               Pow10(fracEnd - intEnd - 1))
                      ELSE Zero)
        symbolEnd == LettersEnd(t, k)
        symbol == SubSeq(t, k, symbolEnd - 1)
        sub == Parse(CASE what = "expr" -> "term"
                       [] what = "exprRest" -> "term"
                       [] what = "term" -> "unary"
                       [] what = "termRest" -> "unary"
                       [] what = "unary" ->
                              IF k <= Len(t) /\ t[k] \in {"-", "+"} THEN "unary"
                              ELSE "primary"
                       [] OTHER -> "expr",
                     t, acc,
                     IF what \in {"expr", "term"} THEN k0
                     ELSE IF what = "unary" /\ (k > Len(t) \/ t[k] \notin {"-", "+"})
                          THEN k ELSE k + 1)
        close == SkipBlanks(t, sub.k)
        joined == CASE t[k] = "+" -> Add(acc, sub.v)
                    [] t[k] = "-" -> Sub(acc, sub.v)
                    [] t[k] = "*" -> Mul(acc, sub.v)
                    [] OTHER -> Div(acc, sub.v)
    IN  CASE what \in {"expr", "term"} ->
                 IF sub.ok
                 THEN Parse(IF what = "expr" THEN "exprRest" ELSE "termRest",
                            t, sub.v, sub.k)
                 ELSE sub
          [] what \in {"exprRest", "termRest"} ->
                 IF k > Len(t)
                    \/ t[k] \notin (IF what = "exprRest" THEN {"+", "-"} ELSE {"*", "/"})
                 THEN Parsed(acc, k)
                 ELSE IF ~sub.ok THEN sub
                 ELSE Parse(what, t, joined, sub.k)
          [] what = "unary" ->
                 IF k > Len(t) THEN ParseFailed
                 ELSE IF t[k] = "-" /\ sub.ok THEN Parsed(Neg(sub.v), sub.k)
                 ELSE sub
          [] OTHER ->
                 IF IsDigit(t[k])
                 THEN (IF fracEnd <= Len(t) /\ IsLetter(t[fracEnd])
                       THEN ParseFailed  \* implicit multiplication by an undefined symbol
                       ELSE Parsed(number, fracEnd))
                 ELSE IF t[k] = "("
                      THEN (IF sub.ok /\ close <= Len(t) /\ t[close] = ")"
                            THEN Parsed(sub.v, close + 1) ELSE ParseFailed)
                 ELSE IF ~IsLetter(t[k]) THEN ParseFailed
                 ELSE IF symbol = <<"I", "n", "f", "i", "n", "i", "t", "y">>
                      THEN Parsed(Rat(1, 0), symbolEnd)
                 ELSE IF symbol = <<"N", "a", "N">> THEN Parsed(NaN, symbolEnd)
                 ELSE ParseFailed        \* Undefined symbol

\* math.evaluate(expression): the value, or ParseFailed where it throws
MathEvaluate(expression) ==
    LET r == Parse("expr", expression, Zero, 1)
    IN  IF r.ok /\ SkipBlanks(expression, r.k) > Len(expression) THEN r ELSE ParseFailed

\* the expression after the variables k .. of the scenario have been substituted;
\* a scenario is the sequence of its properties in insertion order
RECURSIVE Substitute(_, _, _)
Substitute(expression, scenario, k) ==
    IF k > Len(scenario) THEN expression
    ELSE Substitute(ReplaceAll(expression, scenario[k].name,
                               NumberToString(scenario[k].value), 1),
                    scenario, k + 1)

\* what the catch block returns
FormulaFallback == Zero

evaluateFormula(formula, variables) ==
    LET r == MathEvaluate(Substitute(formula, variables, 1))
    IN  IF r.ok THEN r.v ELSE FormulaFallback

(***************************************************************************)
(* Inputs                                                                  *)
(***************************************************************************)
MaxLen == 3

MaxNodes == 3

MaxScenarios == 4

FlowValues == {Num(-50), Num(0), Rat(1, 100), Num(50), Num(60), Num(100)}

Investments == {Num(0), Num(100)}

Rates == {Rat(-1, 10), Num(0), Rat(1, 10), Rat(1, 4)}

RECURSIVE SeqsOfLen(_, _)
SeqsOfLen(S, n) ==
    IF n = 0 THEN {<<>>} ELSE {Append(q, x) : q \in SeqsOfLen(S, n - 1), x \in S}

\* cash-flow arrays of 0 .. MaxLen periods
FlowSeqs == UNION {SeqsOfLen(FlowValues, n) : n \in 0..MaxLen}

\* Projects whose Newton-Raphson iterates stay small as exact fractions.
Project(inv, flows) == [initialInvestment |-> inv, cashFlows |-> flows]

Projects ==
    { Project(Num(100), <<Num(110)>>),
      Project(Num(100), <<Num(10), Num(110)>>),
      Project(Num(100), <<Num(10), Num(10), Num(10), Num(110)>>),
      Project(Num(9), <<Num(10)>>),
      Project(Num(10), <<Num(10)>>),
      Project(Num(100), <<Num(0)>>),
      Project(Num(100), <<Num(0), Num(0)>>),
      Project(Num(4000), <<Num(8820), Num(-4851)>>),
      Project(Num(1), <<Num(1000), Rat(-109879, 100)>>),
      Project(Num(0), <<Num(0)>>),
      Project(Num(0), <<Num(50)>>),
      Project(Num(100), <<>>) }

\* a project that calculateROI rejects
NegativeProject == Project(Num(-100), <<Num(110)>>)

ProjectRates == {Rat(-1, 10), Num(0), Rat(1, 20), Rat(1, 10)}

\* the arguments of calculateNPV: every combination, and one whose net present
\* value is a tenth of a cent
NPVCalls ==
    [initialInvestment : Investments, cashFlows : FlowSeqs, discountRate : Rates]
    \cup {[initialInvestment |-> Num(100), cashFlows |-> <<Num(110)>>,
           discountRate |-> Rat(1999, 20000)]}

\* projectData objects: every project at every rate, and one whose net present
\* value is below half a cent
ProjectData ==
    {[initialInvestment |-> p.initialInvestment, cashFlows |-> p.cashFlows,
      discountRate |-> dr] : p \in Projects \cup {NegativeProject}, dr \in ProjectRates}
    \cup {[initialInvestment |-> Num(100), cashFlows |-> <<Num(110)>>,
           discountRate |-> Rat(1999, 20000)]}

TreeValues == {Num(-5), Num(10)}

Probabilities == {Rat(1, 4), Rat(1, 2)}

Leaf(v, p) == [type |-> "outcome", name |-> 0, probability |-> p, value |-> v]

Inner(t, p, bs) == [type |-> t, name |-> 0, probability |-> p, branches |-> bs]

\* an outcome node that carries branches all the same
LeafWithBranches(bs) ==
    [type |-> "outcome", name |-> 0, probability |-> Rat(1, 2), value |-> Num(10),
     branches |-> bs]

\* the trees with exactly n nodes, and the branch sequences with n nodes in all
RECURSIVE TreesOfSize(_), ForestsOfSize(_)
TreesOfSize(n) ==
    (IF n = 1 THEN {Leaf(v, p) : v \in TreeValues, p \in Probabilities} ELSE {})
    \cup {Inner(t, p, bs) : t \in {"chance", "decision"}, p \in Probabilities,
                            bs \in ForestsOfSize(n - 1)}
    \cup (IF n = 1 THEN {} ELSE {LeafWithBranches(bs) : bs \in ForestsOfSize(n - 1)})

ForestsOfSize(n) ==
    IF n = 0 THEN {<<>>}
    ELSE UNION {{<<t>> \o f : t \in TreesOfSize(k), f \in ForestsOfSize(n - k)} :
                k \in 1..n}

\* the tree with every node named by its position among its siblings
RECURSIVE Named(_, _)
Named(t, nm) ==
    IF "branches" \notin DOMAIN t THEN [t EXCEPT !.name = nm]
    ELSE [t EXCEPT !.name = nm,
                   !.branches = [k \in 1..Len(t.branches) |-> Named(t.branches[k], k)]]

Trees == {Named(t, 0) : t \in UNION {TreesOfSize(n) : n \in 1..MaxNodes}}

Returns == {Num(50), Num(100), Rat(100001, 1000), Num(115), Num(116)}

SensBases ==
    [initialInvestment : Investments,
     cashFlows : {<<>>, <<Num(50)>>, <<Num(60), Num(60)>>},
     discountRate : {Rat(-1, 10), Rat(1, 10)}]

Range(lo, hi, st) == [min |-> lo, max |-> hi, step |-> st]

\* variations objects with and without each of the two optional properties
Ranges ==
    {Range(Zero, Rat(1, 10), Rat(1, 20)), Range(Rat(-1, 20), Rat(1, 20), Rat(1, 20)),
     Range(Zero, Rat(1, 10), Zero), Range(Rat(1, 20), Rat(1, 10), Rat(-1, 20))}

Multipliers == {<<Rat(1, 2), Rat(3, 2)>>}

Variations ==
    {[none |-> TRUE]}
    \cup [discountRateRange : Ranges]
    \cup [cashFlowMultipliers : Multipliers]
    \cup [discountRateRange : Ranges, cashFlowMultipliers : Multipliers]

\* if (variations.discountRateRange), if (variations.cashFlowMultipliers)
Has(obj, property) == property \in DOMAIN obj

MaxTrials == 3

\* values of Math.random
RandomValues == {Zero, Rat(1, 4), Rat(1, 2), Rat(3, 4)}

Variable(name, distribution, parameters) ==
    [name |-> name, config |-> [distribution |-> distribution, parameters |-> parameters]]

UniformX == Variable(<<"x">>, "uniform", [min |-> Num(-1), max |-> Num(3)])

TriangularX ==
    Variable(<<"x">>, "triangular", [min |-> Zero, max |-> Num(4), mode |-> Num(1)])

NormalY == Variable(<<"y">>, "normal", [mean |-> Num(1), stdDev |-> Num(2)])

\* no distribution of the three: parameters.mean || 0
ConstantY == Variable(<<"y">>, "constant", [mean |-> Num(2)])

ZeroY == Variable(<<"y">>, "constant", [none |-> TRUE])

\* variables whose names hold the name x
ConstantXy == Variable(<<"x", "y">>, "constant", [mean |-> Num(5)])

ConstantXx == Variable(<<"x", "x">>, "constant", [mean |-> Num(5)])

FormulaX == <<"x">>

FormulaDifference == <<"x", " ", "-", " ", "y">>

FormulaQuotient == <<"x", " ", "/", " ", "y">>

FormulaXyMinusX == <<"x", "y", " ", "-", " ", "x">>

FormulaXxMinusX == <<"x", "x", " ", "-", " ", "x">>

\* z is no variable of any simulation
FormulaUndeclared == <<"x", " ", "-", " ", "z">>

\* the largest double below 1
NearlyOne == Dyadic(FALSE, BigSub(BigShl(<<1>>, 53), <<1>>), -53)

ConfidenceLevels ==
    {DFromRat(Rat(1, 2)), DFromRat(Rat(9, 10)), DFromRat(Rat(95, 100)), NearlyOne}

\* the random inputs a variable is given: those for which the square roots of
\* the triangular distribution are exact
Draws(config) ==
    IF config.distribution = "triangular" THEN {Zero, Rat(1, 4)}
    ELSE IF config.distribution \in {"uniform", "normal"} THEN RandomValues
    ELSE {Zero}

\* the random inputs of n trials, one per variable and trial
Tapes(variables, n) ==
    SeqsOfLen({d \in [1..Len(variables) -> RandomValues] :
                  \A k \in 1..Len(variables) : d[k] \in Draws(variables[k].config)}, n)

\* long runs of one variable: Math.random cycling through its values, and one
\* low value followed by high ones
LongTapes(n) ==
    {[t \in 1..n |-> <<Rat((t * s) % 4, 4)>>] : s \in {0, 1, 3}}
    \cup {[t \in 1..n |-> <<IF t = 1 THEN Zero ELSE Rat(3, 4)>>]}

LongRuns == {20, 21}

Simulation(variables, iterations, formula, confidenceLevel) ==
    [variables |-> variables, iterations |-> iterations, formula |-> formula,
     confidenceLevel |-> confidenceLevel]

SimulationCalls ==
    UNION {
        {[simulationParams |-> Simulation(<<UniformX>>, n, FormulaX, DFromRat(Rat(95, 100))),
          random |-> t] : t \in Tapes(<<UniformX>>, n)} : n \in 1..MaxTrials}
    \cup UNION {
        {[simulationParams |-> Simulation(<<UniformX>>, n, FormulaX, c), random |-> t] :
            t \in Tapes(<<UniformX>>, n), c \in ConfidenceLevels} : n \in 1..2}
    \cup UNION {
        {[simulationParams |-> Simulation(<<UniformX, y>>, n, f, DFromRat(Rat(95, 100))),
          random |-> t] :
            y \in {ConstantY, ZeroY}, t \in Tapes(<<UniformX, ConstantY>>, n),
            f \in {FormulaDifference, FormulaQuotient, FormulaUndeclared}} : n \in 1..2}
    \cup {[simulationParams |->
               Simulation(<<TriangularX, NormalY>>, 1, FormulaDifference, DFromRat(Rat(9, 10))),
           random |-> t] : t \in Tapes(<<TriangularX, NormalY>>, 1)}
    \cup UNION {
        {[simulationParams |-> Simulation(<<UniformX>>, n, FormulaX, c), random |-> t] :
            t \in LongTapes(n), c \in {DFromRat(Rat(9, 10)), DFromRat(Rat(95, 100))}} :
        n \in LongRuns}
    \cup UNION {
        {[simulationParams |-> Simulation(vs, 1, f, DFromRat(Rat(95, 100))), random |-> t] :
            t \in Tapes(vs, 1), f \in {FormulaXyMinusX, FormulaXxMinusX}} :
        vs \in {<<UniformX, ConstantXy, ConstantXx>>, <<ConstantXx, ConstantXy, UniformX>>}}

BaseScenarios ==
    {[revenue |-> Num(100), costs |-> Num(50), discountRate |-> Rat(1, 4), periods |-> Num(2)],
     [revenue |-> Num(100), costs |-> Num(50)],
     [revenue |-> Num(100), costs |-> Num(0), discountRate |-> Num(0), periods |-> Num(1)]}

VariableRange(variable, min, max, steps) ==
    [variable |-> variable, range |-> [min |-> min, max |-> max, steps |-> steps]]

MaxSteps == 3

RevenueRanges ==
    {VariableRange("revenue", Num(40), Num(160), steps) : steps \in 1..MaxSteps}
    \cup {VariableRange("revenue", Num(100), Num(100), steps) : steps \in 1..2}

CostsRanges == {VariableRange("costs", Num(20), Num(80), steps) : steps \in 2..MaxSteps}

DiscountRateRanges == {VariableRange("discountRate", Zero, Rat(1, 2), 3)}

\* variableRanges objects of one, two and three variables
VariableRangeSets ==
    {<<r>> : r \in RevenueRanges \cup CostsRanges \cup DiscountRateRanges}
    \cup {<<r, c>> : r \in RevenueRanges, c \in CostsRanges}
    \cup {<<c, d, r>> : c \in CostsRanges, d \in DiscountRateRanges, r \in RevenueRanges}

KlocValues == {Num(-2), Zero, One}

ProjectTypes == {"organic", "semidetached", "embedded", "unknown"}

MaxCount == 2

Counts == {Num(k) : k \in -1..MaxCount}

\* functionCounts objects: all five counts and the complexity, the counts alone,
\* and objects that leave counts out
FunctionCountSets ==
    [externalInputs : Counts, externalOutputs : Counts, externalInquiries : Counts,
     internalLogicalFiles : Counts, externalInterfaceFiles : Counts,
     complexity : {"simple", "average", "complex"}]
    \cup [externalInputs : Counts, externalOutputs : Counts, externalInquiries : Counts,
          internalLogicalFiles : {Num(MaxCount)}, externalInterfaceFiles : {One}]
    \cup [internalLogicalFiles : Counts, complexity : {"complex", "unknown"}]

Point(size, effort) == [size |-> Num(size), effort |-> Num(effort)]

GridPoints == {Point(1, 10), Point(2, 20), Point(3, 30), Point(1, 20), Point(3, 10)}

\* historicalData arrays: the arrays of up to MaxLen grid points, and
\* points on lines of slope 1/3 and -1/4
HistoricalData ==
    UNION {SeqsOfLen(GridPoints, n) : n \in 0..MaxLen}
    \cup {<<Point(1, 10), Point(4, 11)>>, <<Point(1, 10), Point(4, 11), Point(7, 12)>>,
          <<Point(8, 3), Point(0, 5), Point(4, 4)>>, <<Point(0, 0), Point(1, 0), Point(2, 3)>>}

ProjectSizes == {Num(4), Zero}

\* the estimate k * 2^scale
Estimate(k, scale) == Dyadic(k < 0, BigFromInt(IF k < 0 THEN -k ELSE k), scale)

\* estimates arrays, in any order: up to MaxLen whole numbers, six estimates
\* of which one lies far from the rest, five of which one lies at the very
\* distance of two standard deviations, and the same arrays at the scale of
\* 2^-600, where the square of a difference is below the smallest double
EstimateArrays ==
    LET whole == UNION {SeqsOfLen({0, 1, 5}, n) : n \in 0..MaxLen}
                 \cup {<<0, 0, 0, 0, 0, 6>>, <<6, 0, 0, 0, 0, 0>>, <<4, 4, 9, 4, 4, 4>>,
                       <<0, 0, 0, 0, 5>>, <<-3, 1>>}
    IN  {[k \in 1..Len(a) |-> Estimate(a[k], scale)] : a \in whole, scale \in {0, -600}}

(***************************************************************************)
(* RiskManagementService.monteCarloSimulation.  The outcomes and the         *)
(* statistics selected from them are exact; the positions of the confidence  *)
(* interval and of the percentiles and the bins of the histogram are         *)
(* computed in doubles.  The sums behind mean and variance are exact.        *)
(***************************************************************************)
\* Math.sqrt, to three decimals (rounded down): exact for the squares of such
\* numbers, and enough to fix the two-decimal rounding of every other root.
RECURSIVE SqrtSearch(_, _, _)
SqrtSearch(v, lo, hi) ==
    LET mid == (lo + hi) \div 2
        fits == BigCmp(BigMul(BigFromInt(v.d), BigMul(BigFromInt(mid), BigFromInt(mid))),
                       BigMulSmall(BigMulSmall(BigFromInt(v.n), 1000), 1000)) <= 0
    IN  IF hi - lo <= 1 THEN lo
        ELSE IF fits THEN SqrtSearch(v, mid, hi) ELSE SqrtSearch(v, lo, mid)

MathSqrt(v) ==
    IF IsNaN(v) \/ Less(v, Zero) THEN NaN
    ELSE IF v.d = 0 THEN v
    ELSE Rat(SqrtSearch(v, 0, Pow2(26)), 1000)

\* mean + z0 * stdDev, z0 the standard normal deviate that the Box-Muller
\* transform makes of two values of Math.random
normalRandom(mean, stdDev, z0) == Add(Mul(z0, stdDev), mean)

\* u is the value of Math.random
uniformRandom(min, max, u) == Add(Mul(u, Sub(max, min)), min)

triangularRandom(min, mode, max, u) ==
    LET f == Div(Sub(mode, min), Sub(max, min))
    IN  IF Less(u, f)
        THEN Add(min, MathSqrt(Mul(Mul(u, Sub(max, min)), Sub(mode, min))))
        ELSE Sub(max, MathSqrt(Mul(Mul(Sub(One, u), Sub(max, min)), Sub(max, mode))))

\* draw is the random input of the one call
generateRandomValue(config, draw) ==
    LET parameters == config.parameters
    IN  CASE config.distribution = "normal" ->
                 normalRandom(parameters.mean, parameters.stdDev, draw)
          [] config.distribution = "uniform" ->
                 uniformRandom(parameters.min, parameters.max, draw)
          [] config.distribution = "triangular" ->
                 triangularRandom(parameters.min, parameters.mode, parameters.max, draw)
          [] OTHER ->
                 IF Has(parameters, "mean") /\ Truthy(parameters.mean)
                 THEN parameters.mean ELSE Zero

\* the scenario of one trial: the variables in the order of Object.keys
trialScenario(variables, draws) ==
    [k \in 1..Len(variables) |->
        [name |-> variables[k].name,
         value |-> generateRandomValue(variables[k].config, draws[k])]]

\* a sequence in ascending order (no NaN among its members)
RECURSIVE InsertSorted(_, _)
InsertSorted(s, x) ==
    IF s = <<>> THEN <<x>>
    ELSE IF Less(x, s[1]) THEN <<x>> \o s
    ELSE <<s[1]>> \o InsertSorted(Tail(s), x)

RECURSIVE Ascending(_)
Ascending(s) ==
    IF s = <<>> THEN s ELSE InsertSorted(Ascending(SubSeq(s, 1, Len(s) - 1)), s[Len(s)])

\* results.sort((a, b) => a - b): the orders it may leave.  With a NaN among
\* different values the comparator is inconsistent and the order is whatever
\* the engine's sort makes of it: any order.
SortedOrders(s) ==
    IF \A k \in 1..Len(s) : ~IsNaN(s[k]) THEN {Ascending(s)}
    ELSE IF \A k \in 1..Len(s) : IsNaN(s[k]) THEN {s}
    ELSE {[k \in 1..Len(s) |-> s[p[k]]] : p \in Permutations(1..Len(s))}

\* results[index], undefined (NaN once it is a number) off the array
At(sorted, index) ==
    IF index >= 0 /\ index < Len(sorted) THEN sorted[index + 1] ELSE NaN

\* Math.min(...results), Math.max(...results) of a non-empty array
RECURSIVE MathMin(_)
MathMin(s) ==
    IF Len(s) = 1 THEN s[1]
    ELSE LET m == MathMin(Tail(s))
         IN  IF IsNaN(s[1]) \/ IsNaN(m) THEN NaN ELSE IF Less(m, s[1]) THEN m ELSE s[1]

RECURSIVE MathMax(_)
MathMax(s) ==
    IF Len(s) = 1 THEN s[1]
    ELSE LET m == MathMax(Tail(s))
         IN  IF IsNaN(s[1]) \/ IsNaN(m) THEN NaN ELSE IF Less(s[1], m) THEN m ELSE s[1]

\* Math.floor(results.length * p), p a double
PositionOf(n, p) == DFloor(DMulInt(p, n))

\* Math.floor(results.length * alpha / 2)
lowerIndex(n, confidenceLevel) ==
    LET alpha == DSub(DFromInt(1), confidenceLevel)
    IN  DFloor(DDivInt(DMulInt(alpha, n), 2))

\* Math.floor(results.length * (1 - alpha / 2))
upperIndex(n, confidenceLevel) ==
    LET alpha == DSub(DFromInt(1), confidenceLevel)
    IN  DFloor(DMulInt(DSub(DFromInt(1), DDivInt(alpha, 2)), n))

\* the double of a finite number of the model, and back
ToDouble(a) == DFromRat(a)

\* value >= binStart && (i === bins - 1 ? value <= binEnd : value < binEnd)
InBin(value, binStart, binEnd, last) ==
    DLessEq(binStart, value) /\ (IF last THEN DLessEq(value, binEnd) ELSE DLess(value, binEnd))

\* createHistogram on finite data, the bin edges in doubles
finiteHistogram(data, bins) ==
    LET vals == [k \in 1..Len(data) |-> ToDouble(data[k])]
        min == ToDouble(MathMin(data))
        max == ToDouble(MathMax(data))
        binWidth == DDivInt(DSub(max, min), bins)
    IN  [b \in 1..bins |->
            LET binStart == DAdd(min, DMulInt(binWidth, b - 1))
                binEnd == DAdd(binStart, binWidth)
                count == Cardinality({k \in 1..Len(vals) :
                                         InBin(vals[k], binStart, binEnd, b = bins)})
            IN  [bin |-> b, from |-> DRound2(binStart), to |-> DRound2(binEnd),
                 count |-> count,
                 frequency |-> Round2(Rat(100 * count, Len(data)))]]

\* createHistogram on data with a non-finite member: every bin edge is then
\* non-finite itself, and no rounding happens
nonFiniteHistogram(data, bins) ==
    LET min == MathMin(data)
        max == MathMax(data)
        binWidth == Div(Sub(max, min), Num(bins))
    IN  [b \in 1..bins |->
            LET binStart == Add(min, Mul(binWidth, Num(b - 1)))
                binEnd == Add(binStart, binWidth)
                count == Cardinality({k \in 1..Len(data) :
                             /\ LessEq(binStart, data[k])
                             /\ IF b = bins THEN LessEq(data[k], binEnd)
                                ELSE Less(data[k], binEnd)})
            IN  [bin |-> b, from |-> Round2(binStart), to |-> Round2(binEnd),
                 count |-> count,
                 frequency |-> Round2(Rat(100 * count, Len(data)))]]

\* a bin is [bin, from, to, count, frequency]; the range string is `from - to`
createHistogram(data, bins) ==
    IF \A k \in 1..Len(data) : IsFinite(data[k])
    THEN finiteHistogram(data, bins)
    ELSE nonFiniteHistogram(data, bins)

HistogramBins == 20

\* everything after the trial loop, on the sorted results
monteCarloStatistics(simulationParams, sorted) ==
    LET n == Len(sorted)
        iterations == simulationParams.iterations
        mean == Div(SumSeq(sorted), Num(n))
        median == At(sorted, n \div 2)
        variance ==
            Div(SumSeq([k \in 1..n |-> Mul(Sub(sorted[k], mean), Sub(sorted[k], mean))]),
                Num(n))
        standardDeviation == MathSqrt(variance)
        lower == At(sorted, lowerIndex(n, simulationParams.confidenceLevel))
        upper == At(sorted, upperIndex(n, simulationParams.confidenceLevel))
        IsLoss(r) == Less(r, Zero)
        probabilityOfLoss == Rat(Len(SelectSeq(sorted, IsLoss)), iterations)
        valueAtRisk == At(sorted, PositionOf(n, DFromRat(Rat(5, 100))))
        AtMostVaR(r) == LessEq(r, valueAtRisk)
        lossResults == SelectSeq(sorted, AtMostVaR)
        conditionalValueAtRisk ==
            IF Len(lossResults) > 0
            THEN Div(SumSeq(lossResults), Num(Len(lossResults))) ELSE Zero
        Percentile(p) == Round2(At(sorted, PositionOf(n, DFromRat(Rat(p, 100)))))
    IN  [type |-> "Monte Carlo Simulation",
         parameters |-> simulationParams,
         iterations |-> iterations,
         statistics |->
             [mean |-> Round2(mean), median |-> Round2(median),
              standardDeviation |-> Round2(standardDeviation),
              variance |-> Round2(variance),
              minimum |-> Round2(MathMin(sorted)), maximum |-> Round2(MathMax(sorted))],
         confidenceInterval |->
             [level |-> simulationParams.confidenceLevel,
              lower |-> Round2(lower), upper |-> Round2(upper)],
         riskMetrics |->
             [probabilityOfLoss |-> Round2(Mul(probabilityOfLoss, Num(100))),
              valueAtRisk |-> Round2(valueAtRisk),
              conditionalValueAtRisk |-> Round2(conditionalValueAtRisk)],
         histogram |-> createHistogram(sorted, HistogramBins),
         percentiles |->
             [p5 |-> Percentile(5), p10 |-> Percentile(10), p25 |-> Percentile(25),
              p50 |-> Percentile(50), p75 |-> Percentile(75), p90 |-> Percentile(90),
              p95 |-> Percentile(95)]]

(***************************************************************************)
(* RiskManagementService.sensitivityAnalysis.  A scenario is a record (a      *)
(* function of its property names); variableRanges is the sequence of its     *)
(* properties in insertion order.  Numbers are exact.                         *)
(***************************************************************************)
\* obj[key], undefined (NaN in arithmetic) when obj has no such property
Property(obj, key) == IF key \in DOMAIN obj THEN obj[key] ELSE NaN

\* { ...obj, [key]: value }
WithProperty(obj, key, value) ==
    [k \in DOMAIN obj \cup {key} |-> IF k = key THEN value ELSE obj[k]]

defaultDiscountRate == Rat(1, 10)

defaultPeriods == Num(5)

\* the loop of calculateScenarioNPV from period k on
RECURSIVE scenarioNPVLoop(_, _, _, _, _)
scenarioNPVLoop(netCashFlow, discountRate, periods, k, npv) ==
    IF LessEq(Num(k), periods)
    THEN scenarioNPVLoop(netCashFlow, discountRate, periods, k + 1,
                         Add(npv, Div(netCashFlow, Pow(Add(One, discountRate), k))))
    ELSE npv

calculateScenarioNPV(scenario) ==
    LET revenue == Property(scenario, "revenue")
        costs == Property(scenario, "costs")
        discountRate == IF Has(scenario, "discountRate") THEN scenario.discountRate
                        ELSE defaultDiscountRate
        periods == IF Has(scenario, "periods") THEN scenario.periods ELSE defaultPeriods
    IN  scenarioNPVLoop(Sub(revenue, costs), discountRate, periods, 1, Neg(costs))

\* the row of pass k of the loop over the steps of a variable
sensitivityRow(baseScenario, variable, range, k) ==
    LET stepSize == Div(Sub(range.max, range.min), Num(range.steps - 1))
        value == Add(range.min, Mul(stepSize, Num(k)))
        scenario == WithProperty(baseScenario, variable, value)
        npv == calculateScenarioNPV(scenario)
        percentChange ==
            Mul(Div(Sub(value, Property(baseScenario, variable)),
                    Property(baseScenario, variable)), Num(100))
    IN  [variable |-> variable, value |-> value,
         percentChange |-> Round2(percentChange), npv |-> Round2(npv)]

\* the rows of one variable: for (let i = 0; i < steps; i++)
sensitivityRows(baseScenario, variable, range) ==
    [k \in 1..range.steps |-> sensitivityRow(baseScenario, variable, range, k - 1)]

\* results.filter(r => r.variable === variable)
RowsOf(rows, variable) ==
    LET IsOfVariable(r) == r.variable = variable IN SelectSeq(rows, IsOfVariable)

\* the slope of the regression of the npv on the percentChange of the rows
regressionSlope(variableResults) ==
    LET n == Num(Len(variableResults))
        npvValues == [k \in 1..Len(variableResults) |-> variableResults[k].npv]
        percentChanges == [k \in 1..Len(variableResults) |-> variableResults[k].percentChange]
        sumX == SumSeq(percentChanges)
        sumY == SumSeq(npvValues)
        sumXY == SumSeq([k \in 1..Len(variableResults) |->
                            Mul(percentChanges[k], npvValues[k])])
        sumX2 == SumSeq([k \in 1..Len(variableResults) |->
                            Mul(percentChanges[k], percentChanges[k])])
    IN  Div(Sub(Mul(n, sumXY), Mul(sumX, sumY)), Sub(Mul(n, sumX2), Mul(sumX, sumX)))

\* the entries of sensitivityCoefficients in insertion order
sensitivityCoefficients(variableRanges, rows) ==
    [k \in 1..Len(variableRanges) |->
        [variable |-> variableRanges[k].variable,
         coefficient |-> Round2(regressionSlope(RowsOf(rows, variableRanges[k].variable)))]]

\* entries in descending order of |coefficient|, equal ones in their old order
RECURSIVE InsertRanked(_, _)
InsertRanked(s, x) ==
    IF s = <<>> THEN <<x>>
    ELSE IF Less(MathAbs(s[Len(s)].coefficient), MathAbs(x.coefficient))
         THEN Append(InsertRanked(SubSeq(s, 1, Len(s) - 1), x), s[Len(s)])
         ELSE Append(s, x)

RECURSIVE Ranked(_)
Ranked(s) ==
    IF s = <<>> THEN s ELSE InsertRanked(Ranked(SubSeq(s, 1, Len(s) - 1)), s[Len(s)])

\* .sort(([,a], [,b]) => Math.abs(b) - Math.abs(a)): the orders it may leave.
\* With a NaN coefficient the comparator is inconsistent: any order.
RankingOrders(entries) ==
    IF \A k \in 1..Len(entries) : ~IsNaN(entries[k].coefficient) THEN {Ranked(entries)}
    ELSE {[k \in 1..Len(entries) |-> entries[p[k]]] : p \in Permutations(1..Len(entries))}

(***************************************************************************)
(* CostEstimationService: cocomoEstimation and functionPointsEstimation.      *)
(***************************************************************************)
cocomoConstants(projectType) ==
    CASE projectType = "semidetached" ->
             [a |-> Num(3), b |-> Rat(112, 100), c |-> Rat(5, 2), d |-> Rat(35, 100)]
      [] projectType = "embedded" ->
             [a |-> Rat(36, 10), b |-> Rat(120, 100), c |-> Rat(5, 2), d |-> Rat(32, 100)]
      [] OTHER ->     \* organic, and cocomoConstants[projectType] || cocomoConstants.organic
             [a |-> Rat(24, 10), b |-> Rat(105, 100), c |-> Rat(5, 2), d |-> Rat(38, 100)]

\* Math.pow(base, exponent) for a finite exponent > 0 that is no integer: NaN
\* for a NaN or negative base, 0 and 1 for the bases 0 and 1, and to six
\* decimals at the other points that the estimates of one KLOC reach
MathPow(base, exponent) ==
    IF IsNaN(base) \/ Less(base, Zero) THEN NaN
    ELSE IF base = Zero \/ base = One THEN base
    ELSE CASE base = Rat(24, 10) /\ exponent = Rat(38, 100) -> Rat(1394698, 1000000)
           [] base = Num(3) /\ exponent = Rat(35, 100) -> Rat(1468901, 1000000)
           [] base = Rat(36, 10) /\ exponent = Rat(32, 100) -> Rat(1506665, 1000000)

costPerPersonMonth == 8000

cocomoEstimation(kloc, projectType, teamSize) ==
    LET constants == cocomoConstants(projectType)
        effort == Mul(constants.a, MathPow(kloc, constants.b))
        developmentTime == Mul(constants.c, MathPow(effort, constants.d))
        averageTeamSize == Div(effort, developmentTime)
        totalCost == Mul(effort, Num(costPerPersonMonth))
        productivity == Div(kloc, effort)
    IN  [model |-> "COCOMO",
         projectType |-> projectType,
         kloc |-> kloc,
         effort |-> Round2(effort),
         developmentTime |-> Round2(developmentTime),
         averageTeamSize |-> Round2(averageTeamSize),
         totalCost |-> MathRound(totalCost),
         productivity |-> Round2(productivity),
         costPerPersonMonth |-> Num(costPerPersonMonth)]

FunctionCategories ==
    <<"externalInputs", "externalOutputs", "externalInquiries", "internalLogicalFiles",
      "externalInterfaceFiles">>

\* the weight table with the weights of the two file categories exchanged
complexityWeightsExchanged(complexity) ==
    CASE complexity = "simple" -> <<3, 4, 3, 5, 7>>
      [] complexity = "average" -> <<4, 5, 4, 7, 10>>
      [] complexity = "complex" -> <<6, 7, 6, 10, 15>>
      [] OTHER -> <<>>

\* complexityWeights[complexity] as the weights in the order of FunctionCategories;
\* no property of that name: undefined
complexityWeights(complexity) ==
    CASE complexity = "simple" -> <<3, 4, 3, 7, 5>>
      [] complexity = "average" -> <<4, 5, 4, 10, 7>>
      [] complexity = "complex" -> <<6, 7, 6, 15, 10>>
      [] OTHER -> <<>>

tcf == 1

hoursPerFP == 15

hourlyRate == 75

functionPointsEstimation(functionCounts) ==
    LET count == [k \in 1..5 |->
                     IF Has(functionCounts, FunctionCategories[k])
                     THEN functionCounts[FunctionCategories[k]] ELSE Zero]
        complexity == IF Has(functionCounts, "complexity") THEN functionCounts.complexity
                      ELSE "average"
        weights == complexityWeights(complexity)
        total == [k \in 1..5 |-> Mul(count[k], Num(weights[k]))]
        ufp == Add(Add(Add(Add(total[1], total[2]), total[3]), total[4]), total[5])
        afp == Mul(ufp, Num(tcf))
        totalHours == Mul(afp, Num(hoursPerFP))
        totalCost == Mul(totalHours, Num(hourlyRate))
        developmentDays == Div(totalHours, Num(8))
    IN  IF weights = <<>>
        THEN Error("TypeError: Cannot read properties of undefined")
        ELSE [model |-> "Function Points",
              complexity |-> complexity,
              unadjustedFunctionPoints |-> ufp,
              technicalComplexityFactor |-> Num(tcf),
              adjustedFunctionPoints |-> Round2(afp),
              totalHours |-> MathRound(totalHours),
              totalCost |-> MathRound(totalCost),
              developmentDays |-> MathRound(developmentDays),
              hourlyRate |-> Num(hourlyRate),
              breakdown |-> [k \in 1..5 |->
                                [category |-> FunctionCategories[k], count |-> count[k],
                                 weight |-> weights[k], total |-> total[k]]]]

\* estimates.sort((a, b) => a - b) on doubles
RECURSIVE DInsertSorted(_, _)
DInsertSorted(s, x) ==
    IF s = <<>> THEN <<x>>
    ELSE IF DLess(x, s[Len(s)]) THEN DInsertSorted(SubSeq(s, 1, Len(s) - 1), x) \o <<s[Len(s)]>>
    ELSE s \o <<x>>

RECURSIVE DAscending(_)
DAscending(s) ==
    IF s = <<>> THEN s ELSE DInsertSorted(DAscending(SubSeq(s, 1, Len(s) - 1)), s[Len(s)])

\* values.reduce((sum, val) => sum + val, 0) on doubles
RECURSIVE DSumSeq(_)
DSumSeq(s) ==
    IF s = <<>> THEN DZero ELSE DAdd(DSumSeq(SubSeq(s, 1, Len(s) - 1)), s[Len(s)])

medianOfLower(sortedEstimates) == sortedEstimates[(Len(sortedEstimates) + 1) \div 2]

\* n % 2 === 0 ? (sorted[n/2 - 1] + sorted[n/2]) / 2 : sorted[Math.floor(n/2)]
medianOf(sortedEstimates) ==
    LET n == Len(sortedEstimates)
    IN  IF n % 2 = 0
        THEN DDivInt(DAdd(sortedEstimates[n \div 2], sortedEstimates[n \div 2 + 1]), 2)
        ELSE sortedEstimates[n \div 2 + 1]

withinTwoSigmaStrictly(est, mean, stdDev) ==
    DLess(DAbs(DSub(est, mean)), DMulInt(stdDev, 2))

\* Math.abs(est - mean) <= 2 * stdDev
withinTwoSigma(est, mean, stdDev) ==
    DLessEq(DAbs(DSub(est, mean)), DMulInt(stdDev, 2))

\* expertJudgmentEstimation, from the end to the start: each part of the body
\* is an operator of the values computed before it.
\* the result, with the three-point estimate of minimum, median and maximum
expertResult(sortedEstimates, mean, median, stdDev, filteredEstimates, adjustedMean) ==
    LET n == Len(sortedEstimates)
        optimistic == sortedEstimates[1]
        pessimistic == sortedEstimates[n]
        mostLikely == median
        pertEstimate ==
            DDivInt(DAdd(DAdd(optimistic, DMulInt(mostLikely, 4)), pessimistic), 6)
    IN  [model |-> "Expert Judgment (Delphi)",
         numberOfExperts |-> n,
         originalEstimates |-> sortedEstimates,
         statistics |->
             [mean |-> DRound2(mean),
              median |-> DRound2(median),
              standardDeviation |-> DRound2(stdDev),
              minimum |-> optimistic,
              maximum |-> pessimistic],
         filteredEstimates |-> filteredEstimates,
         adjustedMean |-> DRound2(adjustedMean),
         pertEstimate |-> DRound2(pertEstimate),
         confidenceRange |->
             [low |-> DRound2(DSub(adjustedMean, stdDev)),
              high |-> DRound2(DAdd(adjustedMean, stdDev))]]

\* adjustedMean: the mean of the filtered estimates, or the mean of all
expertAdjusted(sortedEstimates, mean, stdDev, filteredEstimates) ==
    expertResult(sortedEstimates, mean, medianOf(sortedEstimates), stdDev, filteredEstimates,
                 IF Len(filteredEstimates) > 0
                 THEN DDivInt(DSumSeq(filteredEstimates), Len(filteredEstimates))
                 ELSE mean)

\* filteredEstimates = estimates.filter(est => Math.abs(est - mean) <= 2 * stdDev)
expertFiltered(sortedEstimates, mean, stdDev) ==
    LET Kept(est) == withinTwoSigma(est, mean, stdDev)
    IN  expertAdjusted(sortedEstimates, mean, stdDev, SelectSeq(sortedEstimates, Kept))

\* Math.pow(val - mean, 2), the double nearest to the square
squaredDeviation(val, mean) == LET Square(dev) == DMul(dev, dev) IN Square(DSub(val, mean))

\* variance and stdDev = Math.sqrt(variance)
expertDeviation(sortedEstimates, mean) ==
    expertFiltered(sortedEstimates, mean,
                   DSqrt(DDivInt(DSumSeq([k \in 1..Len(sortedEstimates) |->
                                             squaredDeviation(sortedEstimates[k], mean)]),
                                 Len(sortedEstimates))))

\* mean = estimates.reduce(...) / n, of the sorted array
expertMean(sortedEstimates) ==
    expertDeviation(sortedEstimates,
                    DDivInt(DSumSeq(sortedEstimates), Len(sortedEstimates)))

\* estimates is an array of doubles.  The array is sorted in place, and it is
\* this array that the result holds as originalEstimates.
expertJudgmentEstimation(estimates) ==
    IF Len(estimates) = 0
    THEN Error("At least one estimate is required")
    ELSE expertMean(DAscending(estimates))

\* the z value of the 95% interval
zValue == Rat(196, 100)

slopeOfSwapped(n, sumX, sumY, sumXY, sumX2) ==
    Div(Sub(Mul(n, sumXY), Mul(sumX, sumY)), Sub(Mul(sumX, sumX), Mul(n, sumX2)))

\* const b = (n * sumXY - sumX * sumY) / (n * sumX2 - sumX * sumX)
slopeOf(n, sumX, sumY, sumXY, sumX2) ==
    Div(Sub(Mul(n, sumXY), Mul(sumX, sumY)), Sub(Mul(n, sumX2), Mul(sumX, sumX)))

\* historicalData is an array of {size, effort}.  Math.sqrt is taken to
\* three decimals (MathSqrt): exact when the points lie on one line.
regressionAnalysisEstimation(historicalData, projectSize) ==
    IF Len(historicalData) < 2
    THEN Error("At least 2 historical data points are required")
    ELSE LET count == Len(historicalData)
             n == Num(count)
             size == [k \in 1..count |-> historicalData[k].size]
             effort == [k \in 1..count |-> historicalData[k].effort]
             sumX == SumSeq(size)
             sumY == SumSeq(effort)
             sumXY == SumSeq([k \in 1..count |-> Mul(size[k], effort[k])])
             sumX2 == SumSeq([k \in 1..count |-> Mul(size[k], size[k])])
             b == slopeOf(n, sumX, sumY, sumXY, sumX2)
             a == Div(Sub(sumY, Mul(b, sumX)), n)
             predictedEffort == Add(a, Mul(b, projectSize))
             sumY2 == SumSeq([k \in 1..count |-> Mul(effort[k], effort[k])])
             numerator == Sub(Mul(n, sumXY), Mul(sumX, sumY))
             denominator == MathSqrt(Mul(Sub(Mul(n, sumX2), Mul(sumX, sumX)),
                                         Sub(Mul(n, sumY2), Mul(sumY, sumY))))
             correlationCoefficient ==
                 IF denominator = Zero THEN Zero ELSE Div(numerator, denominator)
             \* correlationCoefficient * correlationCoefficient, the root being exact
             rSquared ==
                 IF denominator = Zero THEN Zero
                 ELSE Div(Mul(numerator, numerator),
                          Mul(Sub(Mul(n, sumX2), Mul(sumX, sumX)),
                              Sub(Mul(n, sumY2), Mul(sumY, sumY))))
             ssr == SumSeq([k \in 1..count |->
                               LET predicted == Add(a, Mul(b, size[k]))
                               IN  Pow(Sub(effort[k], predicted), 2)])
             standardError == MathSqrt(Div(ssr, Num(count - 2)))
         IN  [model |-> "Regression Analysis",
              regressionEquation |->
                  [intercept |-> Round2(a),
                   slope |-> Round2(b),
                   equation |-> <<"Effort = ", Round2(a), " + ", Round2(b), " x Size">>],
              projectSize |-> projectSize,
              predictedEffort |-> Round2(predictedEffort),
              statisticalMeasures |->
                  [correlationCoefficient |-> Round2(correlationCoefficient),
                   rSquared |-> Round2(rSquared),
                   standardError |-> Round2(standardError)],
              confidenceInterval |->
                  [lower |-> Round2(Sub(predictedEffort, Mul(zValue, standardError))),
                   upper |-> Round2(Add(predictedEffort, Mul(zValue, standardError)))],
              dataPoints |-> count]

calculateStatistics(values) ==
    IF Len(values) = 0 THEN [mean |-> Zero, median |-> Zero, stdDev |-> Zero]
    ELSE LET sorted == Ascending(values)
             length == Len(values)
             mean == Div(SumSeq(values), Num(length))
             median == IF length % 2 = 0
                       THEN Div(Add(sorted[length \div 2], sorted[length \div 2 + 1]), Num(2))
                       ELSE sorted[length \div 2 + 1]
             variance == Div(SumSeq([k \in 1..length |-> Pow(Sub(values[k], mean), 2)]),
                             Num(length))
             stdDev == MathSqrt(variance)
         IN  [mean |-> mean, median |-> median, stdDev |-> stdDev]

\* a || b: a when truthy, b otherwise; a property the object lacks is undefined
OrElse(est, property, otherwise) ==
    IF Has(est, property) /\ Truthy(est[property]) THEN est[property] ELSE otherwise

\* est.effort || est.predictedEffort || est.adjustedMean || est.totalHours / 8
effortOf(est) ==
    OrElse(est, "effort",
           OrElse(est, "predictedEffort",
                  OrElse(est, "adjustedMean",
                         IF Has(est, "totalHours") THEN Div(est.totalHours, Num(8))
                         ELSE NaN)))

\* Math.min(...values), Math.max(...values): Infinity and -Infinity of no values
MinOf(values) == IF values = <<>> THEN [n |-> 1, d |-> 0] ELSE MathMin(values)

MaxOf(values) == IF values = <<>> THEN [n |-> -1, d |-> 0] ELSE MathMax(values)

compareEstimations(estimations) ==
    IF Len(estimations) = 0
    THEN Error("At least one estimation is required for comparison")
    ELSE LET efforts == SelectSeq([k \in 1..Len(estimations) |-> effortOf(estimations[k])],
                                  Truthy)
             HasCost(est) == Has(est, "totalCost") /\ Truthy(est.totalCost)
             withCost == SelectSeq(estimations, HasCost)
             costs == [k \in 1..Len(withCost) |-> withCost[k].totalCost]
             effortStats == calculateStatistics(efforts)
             costStats == calculateStatistics(costs)
         IN  [estimations |-> estimations,
              summary |->
                  [numberOfEstimations |-> Len(estimations),
                   effortStatistics |-> effortStats,
                   costStatistics |-> costStats,
                   averageEffort |-> Round2(effortStats.mean),
                   averageCost |-> MathRound(costStats.mean),
                   effortRange |->
                       [min |-> MinOf(efforts), max |-> MaxOf(efforts),
                        spread |-> Sub(MaxOf(efforts), MinOf(efforts))],
                   costRange |->
                       [min |-> MinOf(costs), max |-> MaxOf(costs),
                        spread |-> Sub(MaxOf(costs), MinOf(costs))]]]

\* the inputs of compareEstimations: results of the estimation models
EstimationResults ==
    {cocomoEstimation(kloc, "organic", 5) : kloc \in KlocValues}
    \cup {cocomoEstimation(One, "embedded", 5)}
    \cup {functionPointsEstimation([externalInputs |-> Num(k)]) : k \in {0, 2, 4}}
    \cup {regressionAnalysisEstimation(<<Point(1, 10), Point(2, 20), Point(3, 30)>>, ps) :
             ps \in ProjectSizes}
    \cup {expertJudgmentEstimation(<<Estimate(k, 0), Estimate(2, 0)>>) : k \in {-2, 1}}

\* estimations arrays of 0 .. 2 results
EstimationLists ==
    {<<>>} \cup {<<est>> : est \in EstimationResults}
    \cup {<<cocomoEstimation(One, "organic", 5), est>> : est \in EstimationResults}

(***************************************************************************)
(* The caller: one operation at a time, each on inputs of its domain.       *)
(***************************************************************************)
NoArgs == [none |-> TRUE]

Init ==
    /\ pc = "idle"
    /\ op = "none"
    /\ args = NoArgs
    /\ inputs = NoArgs
    /\ ret = Null
    /\ i = 0
    /\ rate = Zero
    /\ restarts = 0
    /\ kind = "none"
    /\ results = <<>>

\* a call that runs to its return or throw in one step
Call(name, a, r) ==
    /\ pc' = "returned"
    /\ op' = name
    /\ args' = a
    /\ inputs' = a
    /\ ret' = r
    /\ UNCHANGED <<i, rate, restarts, kind, results>>

CallROI ==
    /\ pc = "idle"
    /\ \E inv \in Investments \cup {Num(-100)}, r \in Returns :
        Call("calculateROI", [totalInvestment |-> inv, totalReturn |-> r],
             calculateROI(inv, r))

CallNPV ==
    /\ pc = "idle"
    /\ \E call \in NPVCalls :
        Call("calculateNPV", call,
             calculateNPV(call.initialInvestment, call.cashFlows, call.discountRate))

CallPayback ==
    /\ pc = "idle"
    /\ \E inv \in Investments, flows \in FlowSeqs :
        Call("calculatePaybackPeriod",
             [initialInvestment |-> inv, cashFlows |-> flows],
             calculatePaybackPeriod(inv, flows))

CallDiscountedPayback ==
    /\ pc = "idle"
    /\ \E inv \in Investments, flows \in FlowSeqs, dr \in Rates \ {Rat(-1, 10)} :
        Call("calculateDiscountedPaybackPeriod",
             [initialInvestment |-> inv, cashFlows |-> flows, discountRate |-> dr],
             calculateDiscountedPaybackPeriod(inv, flows, dr))

\* comprehensiveAnalysis runs the loop of calculateIRR one pass per step
CallComprehensive ==
    \E projectData \in ProjectData :
        LET start == comprehensiveStart(projectData)
        IN  /\ pc = "idle"
            /\ op' = "comprehensiveAnalysis"
            /\ args' = projectData
            /\ inputs' = projectData
            /\ IF IsError(start)
               THEN pc' = "returned" /\ ret' = start /\ rate' = rate
               ELSE pc' = "irr_loop" /\ ret' = ret /\ rate' = startRate
            /\ UNCHANGED <<i, restarts, kind, results>>

CallDecisionTree ==
    /\ pc = "idle"
    /\ \E t \in Trees :
        Call("decisionTreeAnalysis", [root |-> t], decisionTreeAnalysis([root |-> t]))

\* calculateIRR, one pass of its loop per step
CallIRR ==
    \E p \in Projects :
        /\ pc = "idle"
        /\ op' = "calculateIRR"
        /\ args' = p
        /\ inputs' = p
        /\ IF Len(p.cashFlows) = 0
           THEN /\ pc' = "returned"
                /\ ret' = Error("Cash flows array cannot be empty")
                /\ rate' = rate
           ELSE /\ pc' = "irr_loop"
                /\ ret' = ret
                /\ rate' = startRate
        /\ UNCHANGED <<i, restarts, kind, results>>

IRRIterate ==
    /\ pc = "irr_loop"
    /\ LoopGuard(i)
    /\ LET it == irrIteration(AllCashFlows(args.initialInvestment, args.cashFlows), rate)
       IN  /\ kind' = it.kind
           /\ rate' = it.rate
           /\ pc' = IF it.kind = "break" THEN "irr_validate" ELSE "irr_loop"
           /\ i' = IF it.kind = "break" THEN i ELSE i + 1
           /\ restarts' = IF it.kind = "restart" THEN restarts + 1 ELSE restarts
    /\ UNCHANGED <<op, args, inputs, ret, results>>

IRRExhausted ==
    /\ pc = "irr_loop"
    /\ ~LoopGuard(i)
    /\ pc' = "irr_validate"
    /\ UNCHANGED <<op, args, inputs, ret, i, rate, restarts, kind, results>>

IRRReturn ==
    /\ pc = "irr_validate"
    /\ pc' = "returned"
    /\ ret' = LET irr == irrResult(args.initialInvestment, args.cashFlows, rate)
              IN  IF op = "calculateIRR" THEN irr ELSE comprehensiveAnalysis(args, irr)
    /\ UNCHANGED <<op, args, inputs, i, rate, restarts, kind, results>>

\* FinancialAnalysisService.sensitivityAnalysis, one scenario per step
CallSensitivity ==
    \E baseCase \in SensBases, variations \in Variations :
        /\ pc = "idle"
        /\ op' = "sensitivityAnalysis"
        /\ args' = [baseCase |-> baseCase, variations |-> variations]
        /\ inputs' = [baseCase |-> baseCase, variations |-> variations]
        /\ results' = <<>>
        /\ IF ~Has(variations, "discountRateRange")
           THEN pc' = "sens_multipliers" /\ rate' = rate
           ELSE pc' = "sens_rates" /\ rate' = variations.discountRateRange.min
        /\ UNCHANGED <<ret, i, restarts, kind>>

\* one pass of for (let rate = min; rate <= max; rate += step)
SensRate ==
    /\ pc = "sens_rates"
    /\ LessEq(rate, args.variations.discountRateRange.max)
    /\ Len(results) < MaxScenarios
    /\ LET npv == calculateNPV(args.baseCase.initialInvestment,
                               args.baseCase.cashFlows, rate)
       IN  IF IsError(npv)
           THEN /\ pc' = "returned"
                /\ ret' = Thrown(npv, results)
                /\ UNCHANGED <<rate, results>>
           ELSE /\ results' = Append(results, [parameter |-> "discountRate",
                                               value |-> rate, npv |-> npv.npv])
                /\ rate' = Add(rate, args.variations.discountRateRange.step)
                /\ UNCHANGED <<pc, ret>>
    /\ UNCHANGED <<op, args, inputs, i, restarts, kind>>

SensRatesDone ==
    /\ pc = "sens_rates"
    /\ ~LessEq(rate, args.variations.discountRateRange.max)
    /\ pc' = "sens_multipliers"
    /\ UNCHANGED <<op, args, inputs, ret, i, rate, restarts, kind, results>>

\* one call of the callback of cashFlowMultipliers.forEach
SensMultiplier ==
    /\ pc = "sens_multipliers"
    /\ Has(args.variations, "cashFlowMultipliers")
    /\ i < Len(args.variations.cashFlowMultipliers)
    /\ LET multiplier == args.variations.cashFlowMultipliers[i + 1]
           cashFlows == args.baseCase.cashFlows
           adjustedCashFlows == [k \in 1..Len(cashFlows) |-> Mul(cashFlows[k], multiplier)]
           npv == calculateNPV(args.baseCase.initialInvestment, adjustedCashFlows,
                               args.baseCase.discountRate)
           roi == calculateROI(args.baseCase.initialInvestment, SumSeq(adjustedCashFlows))
       IN  IF IsError(npv) \/ IsError(roi)
           THEN /\ pc' = "returned"
                /\ ret' = Thrown(IF IsError(npv) THEN npv ELSE roi, results)
                /\ UNCHANGED <<i, results>>
           ELSE /\ results' = Append(results, [parameter |-> "cashFlowMultiplier",
                                               value |-> multiplier,
                                               npv |-> npv.npv, roi |-> roi.roi])
                /\ i' = i + 1
                /\ UNCHANGED <<pc, ret>>
    /\ UNCHANGED <<op, args, inputs, rate, restarts, kind>>

\* the return statement, which evaluates the base case
SensReturn ==
    /\ pc = "sens_multipliers"
    /\ IF ~Has(args.variations, "cashFlowMultipliers") THEN TRUE
       ELSE i >= Len(args.variations.cashFlowMultipliers)
    /\ LET baseCase == calculateNPV(args.baseCase.initialInvestment,
                                    args.baseCase.cashFlows, args.baseCase.discountRate)
       IN  ret' = IF IsError(baseCase) THEN Thrown(baseCase, results)
                  ELSE [baseCase |-> baseCase, sensitivityResults |-> results]
    /\ pc' = "returned"
    /\ UNCHANGED <<op, args, inputs, i, rate, restarts, kind, results>>

\* monteCarloSimulation, one trial per step
CallMonteCarlo ==
    \E call \in SimulationCalls :
        /\ pc = "idle"
        /\ pc' = "mc_trials"
        /\ op' = "monteCarloSimulation"
        /\ args' = call
        /\ inputs' = call
        /\ results' = <<>>
        /\ UNCHANGED <<ret, i, rate, restarts, kind>>

\* one pass of for (let i = 0; i < iterations; i++)
MCTrial ==
    /\ pc = "mc_trials"
    /\ i < args.simulationParams.iterations
    /\ LET scenario == trialScenario(args.simulationParams.variables, args.random[i + 1])
           result == evaluateFormula(args.simulationParams.formula, scenario)
       IN  results' = Append(results, result)
    /\ i' = i + 1
    /\ UNCHANGED <<pc, op, args, inputs, ret, rate, restarts, kind>>

\* the sort in place and everything after it
MCReturn ==
    /\ pc = "mc_trials"
    /\ ~(i < args.simulationParams.iterations)
    /\ \E sorted \in SortedOrders(results) :
        /\ results' = sorted
        /\ ret' = monteCarloStatistics(args.simulationParams, sorted)
    /\ pc' = "returned"
    /\ UNCHANGED <<op, args, inputs, i, rate, restarts, kind>>

\* RiskManagementService.sensitivityAnalysis, one variable of variableRanges per step
CallRiskSensitivity ==
    \E baseScenario \in BaseScenarios, variableRanges \in VariableRangeSets :
        /\ pc = "idle"
        /\ pc' = "risk_rows"
        /\ op' = "RiskManagementService.sensitivityAnalysis"
        /\ args' = [baseScenario |-> baseScenario, variableRanges |-> variableRanges]
        /\ inputs' = [baseScenario |-> baseScenario, variableRanges |-> variableRanges]
        /\ results' = <<>>
        /\ UNCHANGED <<ret, i, rate, restarts, kind>>

\* one call of the callback of the first Object.keys(variableRanges).forEach
RiskSensVariable ==
    /\ pc = "risk_rows"
    /\ i < Len(args.variableRanges)
    /\ results' = results \o sensitivityRows(args.baseScenario,
                                             args.variableRanges[i + 1].variable,
                                             args.variableRanges[i + 1].range)
    /\ i' = i + 1
    /\ UNCHANGED <<pc, op, args, inputs, ret, rate, restarts, kind>>

\* the coefficients, the sort of the ranking and the return
RiskSensReturn ==
    /\ pc = "risk_rows"
    /\ i >= Len(args.variableRanges)
    /\ \E ranking \in RankingOrders(sensitivityCoefficients(args.variableRanges, results)) :
        ret' = [type |-> "Sensitivity Analysis",
                baseScenario |-> args.baseScenario,
                results |-> results,
                sensitivityCoefficients |->
                    sensitivityCoefficients(args.variableRanges, results),
                ranking |-> ranking]
    /\ pc' = "returned"
    /\ UNCHANGED <<op, args, inputs, i, rate, restarts, kind, results>>

CallCocomo ==
    /\ pc = "idle"
    /\ \E kloc \in KlocValues, projectType \in ProjectTypes :
        Call("cocomoEstimation", [kloc |-> kloc, projectType |-> projectType, teamSize |-> 5],
             cocomoEstimation(kloc, projectType, 5))

CallFunctionPoints ==
    /\ pc = "idle"
    /\ \E functionCounts \in FunctionCountSets :
        Call("functionPointsEstimation", functionCounts,
             functionPointsEstimation(functionCounts))

CallRegression ==
    /\ pc = "idle"
    /\ \E historicalData \in HistoricalData, projectSize \in ProjectSizes :
        Call("regressionAnalysisEstimation",
             [historicalData |-> historicalData, projectSize |-> projectSize],
             regressionAnalysisEstimation(historicalData, projectSize))

\* estimates.sort(...) sorts the array of the caller
CallExpertJudgment ==
    /\ pc = "idle"
    /\ \E estimates \in EstimateArrays :
        /\ pc' = "returned"
        /\ op' = "expertJudgmentEstimation"
        /\ args' = [estimates |-> estimates]
        /\ inputs' = [estimates |-> DAscending(estimates)]
        /\ ret' = expertJudgmentEstimation(estimates)
        /\ UNCHANGED <<i, rate, restarts, kind, results>>

CallCompare ==
    /\ pc = "idle"
    /\ \E estimations \in EstimationLists :
        Call("compareEstimations", [estimations |-> estimations],
             compareEstimations(estimations))

\* the caller takes the result; the service keeps nothing between calls
Return ==
    /\ pc = "returned"
    /\ pc' = "idle"
    /\ op' = "none"
    /\ args' = NoArgs
    /\ inputs' = NoArgs
    /\ ret' = Null
    /\ i' = 0
    /\ rate' = Zero
    /\ restarts' = 0
    /\ kind' = "none"
    /\ results' = <<>>

Next ==
    \/ CallROI
    \/ CallNPV
    \/ CallPayback
    \/ CallDiscountedPayback
    \/ CallComprehensive
    \/ CallDecisionTree
    \/ CallIRR
    \/ IRRIterate
    \/ IRRExhausted
    \/ IRRReturn
    \/ CallSensitivity
    \/ SensRate
    \/ SensRatesDone
    \/ SensMultiplier
    \/ SensReturn
    \/ CallMonteCarlo
    \/ MCTrial
    \/ MCReturn
    \/ CallRiskSensitivity
    \/ RiskSensVariable
    \/ RiskSensReturn
    \/ CallCocomo
    \/ CallFunctionPoints
    \/ CallExpertJudgment
    \/ CallRegression
    \/ CallCompare
    \/ Return

Spec == Init /\ [][Next]_vars

(***************************************************************************)
(* Claims                                                                  *)
(***************************************************************************)
Returned(name) == pc = "returned" /\ op = name

\* Backward induction as the specification states it, with values reported in
\* cents: a leaf is worth its value, a chance node the probability-weighted sum
\* of its branches, a decision node the best of its branches.
RECURSIVE BackwardValue(_)
BackwardValue(node) ==
    IF node.type = "outcome" THEN node.value
    ELSE LET n == Len(node.branches)
             ev == [k \in 1..n |-> BackwardValue(node.branches[k])]
             sum[k \in 0..n] ==
                 IF k = 0 THEN Zero
                 ELSE Add(sum[k - 1], Mul(node.branches[k].probability, ev[k]))
         IN  IF node.type = "chance" THEN Round2(sum[n])
             ELSE CHOOSE v \in {ev[k] : k \in 1..n} :
                      \A k \in 1..n : LessEq(ev[k], v)

\* every chance or decision node has at least one branch, no outcome node has any
RECURSIVE WellFormed(_)
WellFormed(node) ==
    IF node.type = "outcome" THEN "branches" \notin DOMAIN node
    ELSE /\ Len(node.branches) > 0
         /\ \A k \in 1..Len(node.branches) : WellFormed(node.branches[k])

\* some chance or decision node has a chance or decision node as a branch
Nested(node) ==
    node.type # "outcome"
    /\ \E k \in 1..Len(node.branches) : node.branches[k].type # "outcome"

\* C1: for every finite tree (nested ones included) decisionTreeAnalysis returns
\* without raising, its expectedValue is the backward-induction value of the
\* root, and for a decision root the recommended branch attains that value.
C1_BackwardInduction ==
    (Returned("decisionTreeAnalysis") /\ WellFormed(args.root)) =>
        /\ ~IsError(ret)
        /\ ret.expectedValue = BackwardValue(args.root)
        /\ args.root.type = "decision" =>
               \E k \in 1..Len(args.root.branches) :
                   /\ ret.recommendation = [name |-> args.root.branches[k].name]
                   /\ BackwardValue(args.root.branches[k]) = ret.expectedValue

\* C1, the case the code handles: a decision over outcome leaves.
C1_FlatDecision ==
    /\ Returned("decisionTreeAnalysis")
    /\ args.root.type = "decision"
    /\ Len(args.root.branches) = 2
    /\ args.root.branches[1].value = Num(10)
    /\ args.root.branches[2].value = Num(-5)
    /\ ret.expectedValue = Num(10)
    /\ ret.recommendation = [name |-> 1]

\* the passes of the Newton-Raphson loop that calculateIRR has run so far
Passes == i + (IF kind = "break" THEN 1 ELSE 0)

\* C2: for a non-empty cash-flow sequence calculateIRR runs at most 100 passes of
\* its loop and what it returns is a record (never an error) with irr = the rate
\* reached as a rounded percentage and validation = the rounded residual NPV at
\* that rate, converged or not.
C2_IRRReturnsWithin100 ==
    op = "calculateIRR" =>
        /\ Passes <= 100
        /\ (pc = "returned" /\ Len(args.cashFlows) > 0) =>
               /\ ~IsError(ret)
               /\ ret.irr = Round2(Mul(rate, Num(100)))
               /\ ret.validation =
                      Round2(NPVAt(AllCashFlows(args.initialInvestment, args.cashFlows),
                                   rate, Len(args.cashFlows) + 1))

\* C2 witness: a call that used all 100 passes without converging and returned.
C2_Witness ==
    /\ Returned("calculateIRR")
    /\ Passes = 100
    /\ kind # "break"
    /\ ~IsError(ret)

C4_RoundTrip ==
    (Returned("calculateIRR") /\ ~IsError(ret)) =>
        /\ LessEq(MathAbs(ret.validation), One)
        /\ LessEq(MathAbs(NPVAt(AllCashFlows(args.initialInvestment, args.cashFlows),
                                Div(ret.irr, Num(100)), Len(args.cashFlows) + 1)), One)

\* C4 amended: when the loop leaves through its convergence test, the NPV at the
\* rate reached is below 1e-4 in magnitude and the returned validation is within
\* 1.0 of zero (it is 0).
C4_ConvergedRoundTrip ==
    (Returned("calculateIRR") /\ ~IsError(ret) /\ kind = "break") =>
        /\ Less(MathAbs(NPVAt(AllCashFlows(args.initialInvestment, args.cashFlows),
                              rate, Len(args.cashFlows) + 1)), Rat(1, 10000))
        /\ LessEq(MathAbs(ret.validation), One)
        /\ ret.validation = Zero

\* C4 witness: a call that converged after Newton updates.
C4_Witness ==
    Returned("calculateIRR") /\ ~IsError(ret) /\ kind = "break" /\ i >= 2 /\ restarts = 0

\* the flows k .. n discounted to the end of period k - 1 (Horner's scheme)
RECURSIVE Horner(_, _, _)
Horner(flows, r, k) ==
    IF k > Len(flows) THEN Zero
    ELSE Div(Add(flows[k], Horner(flows, r, k + 1)), Add(One, r))

AllPositive(flows) == \A k \in 1..Len(flows) : Greater(flows[k], Zero)

\* the net present value before it is rounded for the report
ExactNPV(initialInvestment, flows, r) == Sub(Horner(flows, r, 1), initialInvestment)

\* C6 as stated: npv(0, [100], 0) is 100, and for all-positive flows the npv
\* reported at a rate r1 is strictly greater than the npv reported at any
\* greater rate r2.
C6_StrictlyDecreasing ==
    (Returned("calculateNPV") /\ ~IsError(ret) /\ AllPositive(args.cashFlows)) =>
        /\ (args.initialInvestment = Zero /\ args.cashFlows = <<Num(100)>>
               /\ args.discountRate = Zero) => ret.npv = Num(100)
        /\ \A r1 \in Rates :
               (GreaterEq(r1, Zero) /\ Less(r1, args.discountRate)) =>
                   Greater(calculateNPV(args.initialInvestment, args.cashFlows, r1).npv,
                           ret.npv)

\* C6 amended: npv(0, [100], 0) is 100, and for all-positive flows and rates
\* 0 <= r1 < r2 the net present value is strictly greater at r1 than at r2
\* before rounding, while the npv reported (rounded to cents) at r1 is greater
\* than or equal to the one reported at r2.
C6_RoundedDecreasing ==
    (Returned("calculateNPV") /\ ~IsError(ret) /\ AllPositive(args.cashFlows)) =>
        /\ (args.initialInvestment = Zero /\ args.cashFlows = <<Num(100)>>
               /\ args.discountRate = Zero) => ret.npv = Num(100)
        /\ ret.npv = Round2(ExactNPV(args.initialInvestment, args.cashFlows,
                                     args.discountRate))
        /\ \A r1 \in Rates :
               (GreaterEq(r1, Zero) /\ Less(r1, args.discountRate)) =>
                   /\ Greater(ExactNPV(args.initialInvestment, args.cashFlows, r1),
                              ExactNPV(args.initialInvestment, args.cashFlows,
                                       args.discountRate))
                   /\ GreaterEq(calculateNPV(args.initialInvestment, args.cashFlows,
                                             r1).npv,
                                ret.npv)

\* C6 witness: all-positive flows whose npv at a positive rate is reported equal
\* to the npv at rate 0, the difference being lost in the rounding to cents.
C6_Witness ==
    /\ Returned("calculateNPV")
    /\ ~IsError(ret)
    /\ AllPositive(args.cashFlows)
    /\ Greater(args.discountRate, Zero)
    /\ ret.npv = calculateNPV(args.initialInvestment, args.cashFlows, Zero).npv

\* the cumulative cash flow after period k, starting from -initialInvestment,
\* each flow discounted by (1+r)^period
RECURSIVE CumulativeAfter(_, _, _, _)
CumulativeAfter(initialInvestment, flows, r, k) ==
    IF k = 0 THEN Neg(initialInvestment)
    ELSE Add(CumulativeAfter(initialInvestment, flows, r, k - 1),
             Div(flows[k], Pow(Add(One, r), k)))

\* the periods after which the cumulative is >= 0
Recovered(initialInvestment, flows, r) ==
    {k \in 1..Len(flows) : GreaterEq(CumulativeAfter(initialInvestment, flows, r, k), Zero)}

\* i + |cumulative before the period| / (the period's discounted flow), for the
\* first period of Recovered, whose 0-based index is i; reported in hundredths
Interpolated(initialInvestment, flows, r) ==
    LET rec == Recovered(initialInvestment, flows, r)
        k == CHOOSE j \in rec : \A m \in rec : j <= m
    IN  Round2(Add(Num(k - 1),
                   Div(MathAbs(CumulativeAfter(initialInvestment, flows, r, k - 1)),
                       Div(flows[k], Pow(Add(One, r), k)))))

\* the rate of a payback call: 0 for calculatePaybackPeriod (no discounting)
PaybackRate == IF op = "calculateDiscountedPaybackPeriod" THEN args.discountRate ELSE Zero

\* a call of one of the two payback operations on a non-empty series has returned
PaybackReturned ==
    /\ pc = "returned"
    /\ op \in {"calculatePaybackPeriod", "calculateDiscountedPaybackPeriod"}
    /\ Len(args.cashFlows) > 0

\* C7: at the first period where the cumulative (of the flows, or of the flows
\* discounted by (1+rate)^(i+1)) becomes >= 0, the payback operations report
\* paybackPeriod = i + |cumulative before that period| / that period's flow;
\* flows [50,50,50] with initialInvestment 100 give exactly 2.
C7_PaybackInterpolation ==
    PaybackReturned =>
        /\ Recovered(args.initialInvestment, args.cashFlows, PaybackRate) # {} =>
               ret.paybackPeriod =
                   Interpolated(args.initialInvestment, args.cashFlows, PaybackRate)
        /\ (op = "calculatePaybackPeriod" /\ args.initialInvestment = Num(100)
               /\ args.cashFlows = <<Num(50), Num(50), Num(50)>>) =>
               ret.paybackPeriod = Num(2)

\* C7, the case the code handles: [50,50,50] against 100 is paid back at exactly 2.
C7_ExactlyTwo ==
    /\ Returned("calculatePaybackPeriod")
    /\ args.initialInvestment = Num(100)
    /\ args.cashFlows = <<Num(50), Num(50), Num(50)>>
    /\ ret.paybackPeriod = Num(2)

\* C8: for a non-empty series and initialInvestment >= 0 the payback operations
\* return a result, and the reported paybackPeriod is null, with the "not
\* recoverable" interpretation, exactly when the cumulative is negative after
\* every period.
C8_NullIffNeverRecovered ==
    (PaybackReturned /\ GreaterEq(args.initialInvestment, Zero)) =>
        LET never == Recovered(args.initialInvestment, args.cashFlows, PaybackRate) = {}
        IN  /\ ~IsError(ret)
            /\ IsNull(ret.paybackPeriod) <=> never
            /\ never <=>
                   ret.interpretation \in
                       {"Investment not recoverable within given period",
                        "Discounted investment not recoverable within given period"}

\* C8, the case the code handles: a positive investment recovered in some period.
C8_RecoveredPositive ==
    /\ PaybackReturned
    /\ Greater(args.initialInvestment, Zero)
    /\ Recovered(args.initialInvestment, args.cashFlows, PaybackRate) # {}
    /\ ~IsNull(ret.paybackPeriod)

\* C9: whenever comprehensiveAnalysis returns, score = 2[npv > 0] + 2[roi > 15]
\* + 2[irr > discountRate * 100] + 1[payback is a number and <= 3], it lies in
\* 0..7 with maxScore 7, and overall is the band of the score (>= 6, 4..5, 2..3,
\* 0..1).
C9_Score ==
    (Returned("comprehensiveAnalysis") /\ ~IsError(ret)) =>
        LET a == ret.analysis
            points(b, n) == IF b THEN n ELSE 0
            score == ret.recommendation.score
        IN  /\ score = points(Greater(a.npv.npv, Zero), 2)
                       + points(Greater(a.roi.roi, Num(15)), 2)
                       + points(Greater(a.irr.irr, Mul(args.discountRate, Num(100))), 2)
                       + points(~IsNull(a.payback.paybackPeriod)
                                    /\ LessEq(a.payback.paybackPeriod, Num(3)), 1)
            /\ score \in 0..7
            /\ ret.recommendation.maxScore = 7
            /\ ret.recommendation.overall = "Highly Recommended" <=> score >= 6
            /\ ret.recommendation.overall = "Recommended" <=> score \in {4, 5}
            /\ ret.recommendation.overall = "Consider with Caution" <=> score \in {2, 3}
            /\ ret.recommendation.overall = "Not Recommended" <=> score \in {0, 1}

\* C9, the case the code handles: all four criteria met, score 7.
C9_FullScore ==
    /\ Returned("comprehensiveAnalysis")
    /\ ~IsError(ret)
    /\ ret.recommendation.score = 7
    /\ ret.recommendation.overall = "Highly Recommended"

\* C10: when a financial operation rejects its input the error is raised before
\* any part of the computation: comprehensiveAnalysis has computed no metric and
\* sensitivityAnalysis has evaluated no scenario when it throws.
C10_ValidateBeforeCompute ==
    (pc = "returned" /\ IsError(ret)) =>
        /\ op = "comprehensiveAnalysis" => ret.computed = <<>>
        /\ op = "sensitivityAnalysis" => ret.computed = <<>>

\* C10, the case the code handles: comprehensiveAnalysis rejecting a non-positive
\* investment before it computes anything.
C10_RejectedFirst ==
    /\ Returned("comprehensiveAnalysis")
    /\ IsError(ret)
    /\ ret.computed = <<>>

\* C11: decisionTreeAnalysis fails, returning no expected value, whenever the
\* tree contains a chance or decision node with zero branches or an outcome node
\* that carries branches.
C11_MalformedRejected ==
    (Returned("decisionTreeAnalysis") /\ ~WellFormed(args.root)) => IsError(ret)

\* C11, the case the code handles: a decision root with zero branches raises
\* (the reduce of an empty array).
C11_EmptyDecision ==
    /\ Returned("decisionTreeAnalysis")
    /\ args.root.type = "decision"
    /\ Len(args.root.branches) = 0
    /\ IsError(ret)

\* what math.evaluate makes of the formula in trial t of the running simulation
TrialEvaluation(t) ==
    MathEvaluate(Substitute(args.simulationParams.formula,
                            trialScenario(args.simulationParams.variables, args.random[t]),
                            1))

\* C12: while monteCarloSimulation collects outcomes, a trial whose formula
\* failed to evaluate has not been recorded as 0 and a trial whose formula gave
\* a non-finite value has not been recorded as that value: the run was aborted
\* or a sentinel stands in its place.
C12_NoSilentZero ==
    (op = "monteCarloSimulation" /\ pc = "mc_trials") =>
        \A t \in 1..Len(results) :
            LET e == TrialEvaluation(t)
            IN  /\ ~e.ok => results[t] # Zero
                /\ (e.ok /\ ~IsFinite(e.v)) => results[t] # e.v

\* C12, the case it is about: the formula of a recorded trial threw.
C12_FailedTrialRecorded ==
    /\ op = "monteCarloSimulation" /\ pc = "mc_trials"
    /\ \E t \in 1..Len(results) : ~TrialEvaluation(t).ok

\* a returned simulation all of whose outcomes are finite
FiniteRun ==
    /\ Returned("monteCarloSimulation")
    /\ \A k \in 1..Len(results) : IsFinite(results[k])

\* C13: for n >= 1 finite outcomes and a confidence level strictly between 0
\* and 1, the two positions of the confidence interval are positions 0..n-1 of
\* the sorted outcomes, the lower one is not above the upper one, and the
\* reported interval satisfies minimum <= lower <= upper <= maximum.
C13_IntervalWithinOutcomes ==
    FiniteRun =>
        LET n == Len(results)
            level == args.simulationParams.confidenceLevel
            lo == lowerIndex(n, level)
            hi == upperIndex(n, level)
        IN  /\ lo \in 0..n - 1
            /\ hi \in 0..n - 1
            /\ lo <= hi
            /\ LessEq(ret.statistics.minimum, ret.confidenceInterval.lower)
            /\ LessEq(ret.confidenceInterval.lower, ret.confidenceInterval.upper)
            /\ LessEq(ret.confidenceInterval.upper, ret.statistics.maximum)

\* C13, the case the code handles: the 95% interval of three different
\* outcomes, from the lowest to the highest of them.
C13_IntervalOfThree ==
    /\ FiniteRun
    /\ Len(results) = 3
    /\ args.simulationParams.confidenceLevel = DFromRat(Rat(95, 100))
    /\ ret.confidenceInterval.lower = results[1]
    /\ ret.confidenceInterval.upper = results[3]
    /\ Less(results[1], results[3])

\* the risk metrics of a returned simulation are those of its sorted outcomes
RiskMetricsOfOutcomes ==
    LET n == Len(results)
        IsLoss(r) == Less(r, Zero)
        valueAtRisk == results[(n \div 20) + 1]
        AtMostVaR(r) == LessEq(r, valueAtRisk)
        lossResults == SelectSeq(results, AtMostVaR)
    IN  /\ ret.riskMetrics.probabilityOfLoss
               = Round2(Rat(100 * Len(SelectSeq(results, IsLoss)), n))
        /\ ret.riskMetrics.valueAtRisk = Round2(valueAtRisk)
        /\ Len(lossResults) > 0
        /\ ret.riskMetrics.conditionalValueAtRisk
               = Round2(Div(SumSeq(lossResults), Num(Len(lossResults))))
        /\ LessEq(ret.statistics.minimum, ret.riskMetrics.conditionalValueAtRisk)
        /\ LessEq(ret.riskMetrics.conditionalValueAtRisk, ret.riskMetrics.valueAtRisk)

\* C14: over the n outcomes of a returned simulation, probabilityOfLoss is the
\* share of outcomes below 0 as a percentage, valueAtRisk is the sorted outcome
\* at position floor(n * 0.05), conditionalValueAtRisk is the mean of the
\* outcomes not above it, and minimum <= conditionalValueAtRisk <= valueAtRisk.
C14_RiskMetrics == Returned("monteCarloSimulation") => RiskMetricsOfOutcomes

\* C14, the case the code handles: 20 finite outcomes, the value at risk the
\* second lowest of them and above the lowest.
C14_TwentyOutcomes ==
    /\ FiniteRun
    /\ Len(results) = 20
    /\ Less(results[1], results[2])
    /\ RiskMetricsOfOutcomes

\* the bins are as many as asked for, they run from the minimum to the maximum
\* (edges as reported, to two decimals), and every outcome is counted once
RECURSIVE SumCounts(_, _)
SumCounts(histogram, b) ==
    IF b = 0 THEN 0 ELSE SumCounts(histogram, b - 1) + histogram[b].count

BinsPartitionOutcomes ==
    LET histogram == ret.histogram
    IN  /\ Len(histogram) = HistogramBins
        /\ histogram[1].from = ret.statistics.minimum
        /\ histogram[HistogramBins].to = ret.statistics.maximum
        /\ SumCounts(histogram, HistogramBins) = Len(results)

\* C15: the histogram of a returned simulation with finite outcomes has exactly
\* 20 bins, running from the minimum to the maximum outcome, and every outcome
\* is counted in exactly one bin: the counts sum to the number of outcomes.
C15_HistogramPartition == FiniteRun => BinsPartitionOutcomes

\* C15, a case the code handles: all outcomes equal, all counted in the last bin.
C15_EqualOutcomes ==
    /\ FiniteRun
    /\ Len(results) = 20
    /\ results[1] = results[20]
    /\ BinsPartitionOutcomes
    /\ ret.histogram[HistogramBins].count = 20

\* the outcomes of the running simulation in the order of its trials
TrialOutcomes ==
    [t \in 1..Len(args.random) |->
        evaluateFormula(args.simulationParams.formula,
                        trialScenario(args.simulationParams.variables, args.random[t]))]

\* C16: the result of a returned simulation of at most MaxTrials trials is the
\* one result of its outcomes in every order in which the trials could have
\* produced them.
C16_OrderIrrelevant ==
    (Returned("monteCarloSimulation") /\ Len(args.random) <= MaxTrials) =>
        \A q \in Permutations(1..Len(args.random)) :
            \A sorted \in SortedOrders([t \in 1..Len(args.random) |-> TrialOutcomes[q[t]]]) :
                monteCarloStatistics(args.simulationParams, sorted) = ret

\* C16, the case the code handles: three different finite outcomes produced in
\* descending order.
C16_DescendingTrials ==
    /\ FiniteRun
    /\ Len(args.random) = 3
    /\ Less(TrialOutcomes[3], TrialOutcomes[2])
    /\ Less(TrialOutcomes[2], TrialOutcomes[1])
    /\ ret = monteCarloStatistics(args.simulationParams, Ascending(TrialOutcomes))

\* a returned risk sensitivity analysis, and the rows of its k-th variable
RiskReturned == Returned("RiskManagementService.sensitivityAnalysis")

VariableRows(k) == RowsOf(ret.results, args.variableRanges[k].variable)

\* C17: for every variable with steps >= 1 the analysis has exactly `steps`
\* rows, their values evenly spaced within [min, max], the first min and the
\* last max; each row's npv is that of the base scenario with this variable
\* alone replaced; and the base scenario is unchanged.
C17_EvenlySpacedRows ==
    RiskReturned =>
        /\ ret.baseScenario = args.baseScenario
        /\ \A k \in 1..Len(args.variableRanges) :
            LET variable == args.variableRanges[k].variable
                range == args.variableRanges[k].range
                rows == VariableRows(k)
            IN  /\ Len(rows) = range.steps
                /\ rows[1].value = range.min
                /\ rows[range.steps].value = range.max
                /\ \A j \in 1..range.steps :
                    /\ LessEq(range.min, rows[j].value)
                    /\ LessEq(rows[j].value, range.max)
                    /\ rows[j].npv = Round2(calculateScenarioNPV(
                           [p \in DOMAIN args.baseScenario \cup {variable} |->
                               IF p = variable THEN rows[j].value
                               ELSE args.baseScenario[p]]))
                /\ \A j \in 2..range.steps - 1 :
                    Sub(rows[j + 1].value, rows[j].value)
                        = Sub(rows[j].value, rows[j - 1].value)

\* C17, the case the code handles: three steps, the middle value halfway.
C17_ThreeSteps ==
    /\ RiskReturned
    /\ \E k \in 1..Len(args.variableRanges) :
        LET range == args.variableRanges[k].range
            rows == VariableRows(k)
        IN  /\ range.steps = 3
            /\ Len(rows) = 3
            /\ rows[1].value = range.min
            /\ rows[2].value = Div(Add(range.min, range.max), Num(2))
            /\ rows[3].value = range.max
            /\ Less(range.min, range.max)

\* the least-squares slope of y on x: covariance over variance
LeastSquaresSlope(xs, ys) ==
    LET n == Len(xs)
        meanX == Div(SumSeq(xs), Num(n))
        meanY == Div(SumSeq(ys), Num(n))
    IN  Div(SumSeq([k \in 1..n |-> Mul(Sub(xs[k], meanX), Sub(ys[k], meanY))]),
            SumSeq([k \in 1..n |-> Mul(Sub(xs[k], meanX), Sub(xs[k], meanX))]))

\* the percent changes of the rows of the k-th variable are numbers and not
\* all the same: the regression is defined
RegressionDefined(k) ==
    LET rows == VariableRows(k)
    IN  /\ \A j \in 1..Len(rows) : IsFinite(rows[j].percentChange)
        /\ \E j \in 1..Len(rows) : rows[j].percentChange # rows[1].percentChange

CoefficientOf(k) == ret.sensitivityCoefficients[k].coefficient

SlopeOfRows(k) ==
    LET rows == VariableRows(k)
    IN  Round2(LeastSquaresSlope([j \in 1..Len(rows) |-> rows[j].percentChange],
                                 [j \in 1..Len(rows) |-> rows[j].npv]))

\* the ranking holds every entry of sensitivityCoefficients exactly once
RankingComplete ==
    /\ Len(ret.ranking) = Len(args.variableRanges)
    /\ \A k \in 1..Len(args.variableRanges) :
        Cardinality({j \in 1..Len(ret.ranking) :
                        ret.ranking[j] = ret.sensitivityCoefficients[k]}) = 1

\* C18 as stated: every coefficient is a number, the least-squares slope of the
\* variable's rows, and the ranking holds every variable once with |coefficient|
\* not increasing from entry to entry.
C18_SlopeAndRanking ==
    RiskReturned =>
        /\ \A k \in 1..Len(args.variableRanges) :
            IsFinite(CoefficientOf(k)) /\ CoefficientOf(k) = SlopeOfRows(k)
        /\ RankingComplete
        /\ \A j \in 1..Len(ret.ranking) - 1 :
            LessEq(MathAbs(ret.ranking[j + 1].coefficient),
                   MathAbs(ret.ranking[j].coefficient))

\* C18 where it holds: every variable whose regression is defined has as
\* coefficient the least-squares slope of its reported npv on its reported
\* percentChange, to two decimals, and every other variable has the coefficient
\* NaN; the ranking holds every variable once, and when no coefficient is NaN
\* |coefficient| does not increase from entry to entry.
C18_SlopeWhereDefined ==
    RiskReturned =>
        /\ \A k \in 1..Len(args.variableRanges) :
            IF RegressionDefined(k)
            THEN IsFinite(CoefficientOf(k)) /\ CoefficientOf(k) = SlopeOfRows(k)
            ELSE IsNaN(CoefficientOf(k))
        /\ RankingComplete
        /\ (\A k \in 1..Len(args.variableRanges) : RegressionDefined(k)) =>
            \A j \in 1..Len(ret.ranking) - 1 :
                LessEq(MathAbs(ret.ranking[j + 1].coefficient),
                       MathAbs(ret.ranking[j].coefficient))

\* C18, its case: three variables with defined regressions, ranked in another
\* order than they were given, with different |coefficient|.
C18_Reordered ==
    /\ RiskReturned
    /\ Len(args.variableRanges) = 3
    /\ \A k \in 1..3 : RegressionDefined(k)
    /\ ret.ranking[1] # ret.sensitivityCoefficients[1]
    /\ Less(MathAbs(ret.ranking[2].coefficient), MathAbs(ret.ranking[1].coefficient))

FunctionPointsReturned == pc = "returned" /\ op = "functionPointsEstimation"

CountOf(functionCounts, category) ==
    IF Has(functionCounts, category) THEN functionCounts[category] ELSE Zero

TierOf(functionCounts) ==
    IF Has(functionCounts, "complexity") THEN functionCounts.complexity ELSE "average"

NonNegativeCounts(functionCounts) ==
    \A k \in 1..5 : ~Less(CountOf(functionCounts, FunctionCategories[k]), Zero)

\* the lookup table of the three tiers: (EI, EO, EQ, ILF, EIF)
TierWeights ==
    [simple |-> <<3, 4, 3, 7, 5>>, average |-> <<4, 5, 4, 10, 7>>,
     complex |-> <<6, 7, 6, 15, 10>>]

WeightedCount(functionCounts, k) ==
    Mul(CountOf(functionCounts, FunctionCategories[k]),
        Num(TierWeights[TierOf(functionCounts)][k]))

WeightedSum(functionCounts) ==
    Add(WeightedCount(functionCounts, 1),
        Add(WeightedCount(functionCounts, 2),
            Add(WeightedCount(functionCounts, 3),
                Add(WeightedCount(functionCounts, 4), WeightedCount(functionCounts, 5)))))

\* C19: for non-negative integer counts of the five categories and each of the
\* tiers simple, average and complex, functionPointsEstimation returns
\* unadjustedFunctionPoints = the sum of count x weight with the weights of the
\* table, adjustedFunctionPoints = unadjusted x 1.0, totalHours = adjusted x 15,
\* totalCost = totalHours x 75, and 0 function points and 0 cost when all
\* counts are 0.
C19_FunctionPoints ==
    (/\ FunctionPointsReturned
     /\ TierOf(args) \in DOMAIN TierWeights
     /\ NonNegativeCounts(args))
    => /\ ~IsError(ret)
       /\ ret.unadjustedFunctionPoints = WeightedSum(args)
       /\ ret.adjustedFunctionPoints = ret.unadjustedFunctionPoints
       /\ ret.totalHours = Mul(ret.adjustedFunctionPoints, Num(15))
       /\ ret.totalCost = Mul(ret.totalHours, Num(75))
       /\ (\A k \in 1..5 : CountOf(args, FunctionCategories[k]) = Zero)
          => (ret.unadjustedFunctionPoints = Zero /\ ret.totalCost = Zero)

\* an estimate of the complex tier with different counts in the two file categories
C19_ComplexEstimate ==
    /\ FunctionPointsReturned
    /\ DOMAIN args = {"externalInputs", "externalOutputs", "externalInquiries",
                      "internalLogicalFiles", "externalInterfaceFiles", "complexity"}
    /\ args.complexity = "complex"
    /\ NonNegativeCounts(args)
    /\ args.externalInputs = One
    /\ args.internalLogicalFiles = Num(2)
    /\ args.externalInterfaceFiles = Zero
    /\ ret.unadjustedFunctionPoints = Add(Num(36), Add(Mul(args.externalOutputs, Num(7)),
                                                       Mul(args.externalInquiries, Num(6))))

EstimateReturned ==
    /\ pc = "returned"
    /\ \/ op = "cocomoEstimation" /\ ~Less(Zero, args.kloc)
       \/ op = "functionPointsEstimation"
            /\ TierOf(args) \in DOMAIN TierWeights /\ ~NonNegativeCounts(args)

\* C20: cocomoEstimation rejects kloc <= 0 and functionPointsEstimation rejects
\* a negative count in any of the five categories; each fails with an
\* invalid-input error and returns no estimate.
C20_OutOfRangeRejected == EstimateReturned => IsError(ret)

\* cocomoEstimation has returned for zero KLOC
C20_ZeroKloc ==
    pc = "returned" /\ op = "cocomoEstimation" /\ args.kloc = Zero /\ ~IsError(ret)

\* C27: FinancialAnalysisService.sensitivityAnalysis terminates for every
\* baseCase and every discountRateRange, step 0 and negative steps included;
\* the number of discount-rate scenarios is finite.  The loop's whole state is
\* `rate`: a pass that neither leaves the loop nor changes `rate` repeats forever.
C27_EveryPassAdvances ==
    [][(pc = "sens_rates" /\ pc' = "sens_rates") => rate' # rate]_vars

\* the rate loop has evaluated two scenarios at the same rate
C27_SameRateTwice ==
    /\ pc = "sens_rates"
    /\ args.variations.discountRateRange.step = Zero
    /\ Len(results) >= 2
    /\ results[1].value = results[2].value
    /\ LessEq(rate, args.variations.discountRateRange.max)

ROIAgrees ==
    (pc = "returned" /\ op = "calculateROI" /\ ~IsError(ret))
    => /\ ret.interpretation = "Profitable" <=> Greater(ret.roi, Zero)
       /\ ret.interpretation = "Loss" <=> Less(ret.roi, Zero)
       /\ ret.interpretation = "Break-even" <=> ret.roi = Zero

NPVAgrees ==
    (pc = "returned" /\ op = "calculateNPV" /\ ~IsError(ret))
    => /\ ret.interpretation = "Accept Project" <=> Greater(ret.npv, Zero)
       /\ ret.interpretation = "Reject Project" <=> Less(ret.npv, Zero)
       /\ ret.interpretation = "Indifferent" <=> ret.npv = Zero

ReasonAgrees ==
    (pc = "returned" /\ op = "comprehensiveAnalysis" /\ ~IsError(ret))
    => (ret.recommendation.reasons[1] = "Positive NPV"
        <=> ret.analysis.npv.interpretation = "Accept Project")

\* C28: the interpretation in a financial result agrees with the number in the
\* same result: calculateROI says Profitable iff roi > 0, Loss iff roi < 0,
\* Break-even iff roi = 0; calculateNPV says Accept Project iff npv > 0, Reject
\* Project iff npv < 0, Indifferent iff npv = 0; comprehensiveAnalysis gives
\* the reason Positive NPV iff the embedded interpretation is Accept Project.
C28_InterpretationAgrees == ROIAgrees /\ NPVAgrees /\ ReasonAgrees

\* a comprehensive analysis whose net present value is positive and below half a cent
C28_AcceptedAsNegative ==
    /\ pc = "returned" /\ op = "comprehensiveAnalysis" /\ ~IsError(ret)
    /\ ret.analysis.npv.interpretation = "Accept Project"
    /\ ret.recommendation.reasons[1] = "Negative NPV"
    /\ ret.analysis.npv.npv = Zero

RegressionReturned == pc = "returned" /\ op = "regressionAnalysisEstimation"

EqualSizes(historicalData) ==
    \A j, k \in 1..Len(historicalData) : historicalData[j].size = historicalData[k].size

\* C22: regressionAnalysisEstimation fails with an invalid-input error for
\* fewer than 2 historical points, and with a degenerate-input error, returning
\* no slope, intercept or prediction, when all historical sizes are equal.
C22_DegenerateRejected ==
    (RegressionReturned
     /\ (Len(args.historicalData) < 2 \/ EqualSizes(args.historicalData)))
    => IsError(ret)

\* fewer than 2 points are rejected
C22_TooFewRejected ==
    (RegressionReturned /\ Len(args.historicalData) < 2) => IsError(ret)

\* two points of equal size have been fitted
C22_EqualSizesFitted ==
    /\ RegressionReturned
    /\ Len(args.historicalData) = 2
    /\ EqualSizes(args.historicalData)
    /\ ~IsError(ret)
    /\ IsNaN(ret.regressionEquation.slope)
    /\ IsNaN(ret.predictedEffort)

\* the line through the first point and a point of another size: <<a, b>>
LineThrough(historicalData) ==
    LET p == historicalData[1]
        others == {k \in 1..Len(historicalData) : historicalData[k].size # p.size}
        q == historicalData[CHOOSE k \in others : TRUE]
        b == Div(Sub(q.effort, p.effort), Sub(q.size, p.size))
    IN  <<Sub(p.effort, Mul(b, p.size)), b>>

\* all points on one line effort = a + b * size, b # 0, two sizes at least
OnOneLine(historicalData) ==
    /\ Len(historicalData) >= 2
    /\ ~EqualSizes(historicalData)
    /\ LET line == LineThrough(historicalData)
       IN  /\ line[2] # Zero
           /\ \A k \in 1..Len(historicalData) :
                 historicalData[k].effort
                     = Add(line[1], Mul(line[2], historicalData[k].size))

\* C23, as stated: for points on one line effort = a + b * size (b # 0, two
\* distinct sizes at least) regressionAnalysisEstimation returns slope b,
\* intercept a, predictedEffort a + b * projectSize and rSquared 1.
C23_ExactLine ==
    (RegressionReturned /\ OnOneLine(args.historicalData))
    => LET line == LineThrough(args.historicalData)
       IN  /\ ~IsError(ret)
           /\ ret.regressionEquation.slope = line[2]
           /\ ret.regressionEquation.intercept = line[1]
           /\ ret.predictedEffort = Add(line[1], Mul(line[2], args.projectSize))
           /\ ret.statisticalMeasures.rSquared = One

\* C23, amended: for points on one line the returned slope, intercept and
\* predictedEffort are b, a and a + b * projectSize rounded to two decimals,
\* and rSquared is 1; (1,10),(2,20),(3,30) at size 4 gives 40 and 1.
C23_RoundedLine ==
    (RegressionReturned /\ OnOneLine(args.historicalData))
    => LET line == LineThrough(args.historicalData)
       IN  /\ ~IsError(ret)
           /\ ret.regressionEquation.slope = Round2(line[2])
           /\ ret.regressionEquation.intercept = Round2(line[1])
           /\ ret.predictedEffort
                  = Round2(Add(line[1], Mul(line[2], args.projectSize)))
           /\ ret.statisticalMeasures.rSquared = One
           /\ (args.historicalData = <<Point(1, 10), Point(2, 20), Point(3, 30)>>
               /\ args.projectSize = Num(4))
              => ret.predictedEffort = Num(40)

\* the fit of (1,10), (2,20), (3,30) at size 4
C23_ThreeOnLine ==
    /\ RegressionReturned
    /\ args.historicalData = <<Point(1, 10), Point(2, 20), Point(3, 30)>>
    /\ args.projectSize = Num(4)
    /\ ret.predictedEffort = Num(40)
    /\ ret.regressionEquation.slope = Num(10)
    /\ ret.statisticalMeasures.rSquared = One

\* C29: for every accepted input with non-zero size variance, 2 points of
\* distinct sizes in particular, standardError and both bounds of
\* confidenceInterval are finite numbers and lower <= predictedEffort <= upper.
C29_FiniteInterval ==
    (RegressionReturned /\ ~IsError(ret) /\ ~EqualSizes(args.historicalData))
    => /\ IsFinite(ret.statisticalMeasures.standardError)
       /\ IsFinite(ret.confidenceInterval.lower)
       /\ IsFinite(ret.confidenceInterval.upper)
       /\ LessEq(ret.confidenceInterval.lower, ret.predictedEffort)
       /\ LessEq(ret.predictedEffort, ret.confidenceInterval.upper)

\* the same for three points and more
C29_FiniteFromThree ==
    (RegressionReturned /\ Len(args.historicalData) >= 3) => C29_FiniteInterval

\* two points of distinct sizes have been fitted
C29_TwoPoints ==
    /\ RegressionReturned
    /\ Len(args.historicalData) = 2
    /\ ~EqualSizes(args.historicalData)
    /\ ~IsError(ret)
    /\ IsFinite(ret.predictedEffort)
    /\ IsNaN(ret.statisticalMeasures.standardError)
    /\ IsNaN(ret.confidenceInterval.lower)

CompareReturned == pc = "returned" /\ op = "compareEstimations"

\* the effort and the cost the one estimation holds, by its shape
EffortValue(est) ==
    IF Has(est, "effort") THEN est.effort
    ELSE IF Has(est, "predictedEffort") THEN est.predictedEffort
    ELSE IF Has(est, "adjustedMean") THEN est.adjustedMean
    ELSE Div(est.totalHours, Num(8))

SingleCompared(est) ==
    /\ ~IsError(ret)
    /\ ret.summary.effortStatistics.mean = EffortValue(est)
    /\ ret.summary.effortStatistics.median = EffortValue(est)
    /\ ret.summary.effortRange.spread = Zero
    /\ Has(est, "totalCost")
    /\ ret.summary.costStatistics.mean = est.totalCost
    /\ ret.summary.costStatistics.median = est.totalCost
    /\ ret.summary.costRange.spread = Zero

\* C24: for a single-element list holding one estimation result of any
\* supported shape, results with effort or cost 0 included, compareEstimations
\* returns the element's effort as effort mean and median, its cost as cost
\* mean and median, and an effort spread and a cost spread of exactly 0.
C24_SingleEstimation ==
    (CompareReturned /\ Len(args.estimations) = 1) => SingleCompared(args.estimations[1])

\* the same for the results that hold a non-zero effort and a non-zero cost
C24_SingleNonZero ==
    (/\ CompareReturned
     /\ Len(args.estimations) = 1
     /\ Truthy(EffortValue(args.estimations[1]))
     /\ Has(args.estimations[1], "totalCost")
     /\ Truthy(args.estimations[1].totalCost))
    => SingleCompared(args.estimations[1])

\* one function-point result of 0 hours and 0 cost has been compared
C24_ZeroEstimation ==
    /\ CompareReturned
    /\ Len(args.estimations) = 1
    /\ Has(args.estimations[1], "totalHours")
    /\ args.estimations[1].totalHours = Zero
    /\ args.estimations[1].totalCost = Zero
    /\ ret.summary.effortStatistics.mean = Zero
    /\ ret.summary.effortRange.spread = [n |-> -1, d |-> 0]
    /\ ret.summary.costRange.spread = [n |-> -1, d |-> 0]

\* the value a scenario gives the variable of a name
ValueOf(scenario, name) ==
    scenario[CHOOSE k \in 1..Len(scenario) : scenario[k].name = name].value

\* the arithmetic value of the formulas whose variables are all declared
ArithmeticValue(formula, scenario) ==
    CASE formula = FormulaX -> ValueOf(scenario, <<"x">>)
      [] formula = FormulaDifference ->
             Sub(ValueOf(scenario, <<"x">>), ValueOf(scenario, <<"y">>))
      [] formula = FormulaQuotient ->
             Div(ValueOf(scenario, <<"x">>), ValueOf(scenario, <<"y">>))
      [] formula = FormulaXyMinusX ->
             Sub(ValueOf(scenario, <<"x", "y">>), ValueOf(scenario, <<"x">>))
      [] formula = FormulaXxMinusX ->
             Sub(ValueOf(scenario, <<"x", "x">>), ValueOf(scenario, <<"x">>))

TrialAsArithmetic(t) ==
    results[t] = ArithmeticValue(args.simulationParams.formula,
                                 trialScenario(args.simulationParams.variables,
                                               args.random[t]))

\* C26: the outcome that evaluateFormula records for a trial is the arithmetic
\* value of the formula with every declared variable bound to the value drawn
\* in that trial, whatever the names (one may be part of another), the order
\* of substitution and the sign of the values.
C26_OutcomeIsFormulaValue ==
    (/\ op = "monteCarloSimulation" /\ pc = "mc_trials"
     /\ args.simulationParams.formula # FormulaUndeclared)
    => \A t \in 1..Len(results) : TrialAsArithmetic(t)

\* the same where no name of a variable is part of another name
C26_DistinctNames ==
    (/\ op = "monteCarloSimulation" /\ pc = "mc_trials"
     /\ args.simulationParams.formula \in {FormulaX, FormulaDifference, FormulaQuotient})
    => \A t \in 1..Len(results) : TrialAsArithmetic(t)

\* the same where the longer names are substituted first
C26_LongestFirst ==
    (/\ op = "monteCarloSimulation" /\ pc = "mc_trials"
     /\ args.simulationParams.variables = <<ConstantXx, ConstantXy, UniformX>>)
    => \A t \in 1..Len(results) : TrialAsArithmetic(t)

\* x was substituted inside xx: the trial of xx - x with x = 1, xx = 5 gave 10
C26_SubstitutedInsideName ==
    /\ op = "monteCarloSimulation" /\ pc = "mc_trials"
    /\ args.simulationParams.formula = FormulaXxMinusX
    /\ args.simulationParams.variables = <<UniformX, ConstantXy, ConstantXx>>
    /\ Len(results) = 1
    /\ ValueOf(trialScenario(args.simulationParams.variables, args.random[1]), <<"x">>) = One
    /\ results[1] = Num(10)

(***************************************************************************)
(* expertJudgmentEstimation                                                *)
(***************************************************************************)
ExpertReturned == pc = "returned" /\ op = "expertJudgmentEstimation" /\ ~IsError(ret)

\* the estimates as whole numbers of one unit 2^scale, the smallest exponent
\* among them
EstimateScale(estimates) ==
    LET es == {estimates[k].e : k \in {j \in 1..Len(estimates) : estimates[j].m # <<>>}}
    IN  IF es = {} THEN 0 ELSE CHOOSE e \in es : \A f \in es : e <= f

Units(x, scale) == (IF x.neg THEN -1 ELSE 1) * BigToInt(BigShl(x.m, x.e - scale))

UnitsOf(estimates) ==
    [k \in 1..Len(estimates) |-> Units(estimates[k], EstimateScale(estimates))]

RECURSIVE SumInts(_)
SumInts(s) == IF s = <<>> THEN 0 ELSE s[1] + SumInts(Tail(s))

\* |x - mean| <= 2 * sqrt(sum (x_k - mean)^2 / n) of the numbers xs, without
\* division or root: (n x - S)^2 <= 4 (n Q - S^2), S the sum, Q the sum of squares
WithinTwoDeviations(x, xs) ==
    LET n == Len(xs)
        S == SumInts(xs)
        Q == SumInts([k \in 1..n |-> xs[k] * xs[k]])
    IN  (n * x - S) * (n * x - S) <= 4 * (n * Q - S * S)

\* the reported filteredEstimates are the estimates within two standard
\* deviations of the mean
FilterIsExact ==
    LET scale == EstimateScale(ret.originalEstimates)
        xs == UnitsOf(ret.originalEstimates)
        kept == {k \in 1..Len(xs) : WithinTwoDeviations(xs[k], xs)}
        filtered == [j \in 1..Len(ret.filteredEstimates) |->
                        Units(ret.filteredEstimates[j], scale)]
    IN  /\ Len(filtered) = Cardinality(kept)
        /\ \A k \in kept :
               Cardinality({j \in kept : xs[j] = xs[k]})
                   = Cardinality({j \in 1..Len(filtered) : filtered[j] = xs[k]})

\* no square of a difference from the mean is below the smallest double
SquaresRepresentable ==
    LET sorted == ret.originalEstimates
        mean == DDivInt(DSumSeq(sorted), Len(sorted))
    IN  \A k \in 1..Len(sorted) :
            LET dev == DSub(sorted[k], mean)
            IN  dev.m = <<>> \/ 2 * dev.e >= MinExponent

WholeNumbers == \A k \in 1..Len(args.estimates) : args.estimates[k].e >= 0

\* mean of the filtered estimates (of all estimates when none is kept) and the
\* three-point estimate, as exact fractions of whole-number estimates
ExactAdjustedMean ==
    LET kept == IF Len(ret.filteredEstimates) > 0 THEN ret.filteredEstimates
                ELSE ret.originalEstimates
    IN  Rat(SumInts([k \in 1..Len(kept) |-> Units(kept[k], 0)]), Len(kept))

ExactMedian ==
    LET xs == [k \in 1..Len(ret.originalEstimates) |-> Units(ret.originalEstimates[k], 0)]
        n == Len(xs)
    IN  IF n % 2 = 0 THEN Rat(xs[n \div 2] + xs[n \div 2 + 1], 2) ELSE Num(xs[(n + 1) \div 2])

ExactPert ==
    LET xs == [k \in 1..Len(args.estimates) |-> Units(args.estimates[k], 0)]
        all == {xs[k] : k \in 1..Len(xs)}
        smallest == CHOOSE x \in all : \A y \in all : x <= y
        largest == CHOOSE x \in all : \A y \in all : y <= x
    IN  Div(Add(Add(Num(smallest), Mul(Num(4), ExactMedian)), Num(largest)), Num(6))

C30_FilterKeepsOne == ExpertReturned => Len(ret.filteredEstimates) >= 1

\* C30: the outlier filter keeps at least one estimate where no square of a
\* difference from the mean underflows; where it keeps none, adjustedMean is
\* the unfiltered mean.
C30_KeepsOneUnlessUnderflow ==
    ExpertReturned
    => /\ SquaresRepresentable => Len(ret.filteredEstimates) >= 1
       /\ Len(ret.filteredEstimates) = 0 => ret.adjustedMean = ret.statistics.mean

\* estimates that differ, with representable squares, of which some are kept
C30_KeptOfDifferent ==
    /\ ExpertReturned
    /\ SquaresRepresentable
    /\ ret.statistics.minimum # ret.statistics.maximum
    /\ Len(ret.filteredEstimates) >= 1

\* two estimates of the scale 2^-600 of which none is kept
C30_NoneKept ==
    /\ ExpertReturned
    /\ ret.numberOfExperts = 2
    /\ ret.filteredEstimates = <<>>

(***************************************************************************)
(* The inputs after a call                                                  *)
(***************************************************************************)
\* C25: no core operation modifies the input it was given: during and after a
\* call of expertJudgmentEstimation, compareEstimations,
\* regressionAnalysisEstimation, calculateNPV, calculatePaybackPeriod, the risk
\* sensitivityAnalysis or monteCarloSimulation every sequence and record the
\* caller passed holds the same elements in the same order as before the call.
C25_InputsUntouched ==
    op \in {"expertJudgmentEstimation", "compareEstimations",
            "regressionAnalysisEstimation", "calculateNPV", "calculatePaybackPeriod",
            "RiskManagementService.sensitivityAnalysis", "monteCarloSimulation"}
    => inputs = args

\* expertJudgmentEstimation has returned and the array of the caller, which is
\* also the originalEstimates of the result, is in another order than passed
C25_CallerArraySorted ==
    /\ pc = "returned" /\ op = "expertJudgmentEstimation"
    /\ inputs.estimates # args.estimates
    /\ inputs.estimates = ret.originalEstimates
    /\ Len(inputs.estimates) = Len(args.estimates)

====
